---- MODULE Spec2Model ----
(***************************************************************************)
(* Netflix-VerifyBot: the modular application (app.py, email_handler.py,   *)
(* config.py, notifications.py, web_scraper.py) and the loop of main.py.   *)
(* The model follows NetflixVerifyBot.start, _run_main_loop,               *)
(* EmailHandler.connect / run_email_loop / check_emails / _process_email   *)
(* against an IMAP server whose active folder changes between polls.       *)
(***************************************************************************)
EXTENDS Integers, Sequences, FiniteSets, TLC

(* ------------------------------ bounds --------------------------------- *)
\* largest value of MAX_RETRY_ATTEMPTS the configuration is drawn from
MaxRetryLimit == 4
\* last tick of the wall clock
MaxTime == 2
\* number of fetches issued during a run
MaxPolls == 3
\* number of fetches issued during a run that explores the retry loop
RetryPolls == 1
\* largest number of fragments of a body handed to the URL extractor
MaxBodyLen == 3
\* number of fetches issued during a run that follows the periodic clear
ClearPolls == 101

(* -------------------------- program constants -------------------------- *)
\* email_handler.py:365  if check_count >= 100
ClearEvery == 100
\* config.py:144  CHECK_INTERVAL default "3"
DefaultCheckInterval == 3
\* config.py:146  MAX_RETRY_ATTEMPTS default "3"
DefaultMaxRetryAttempts == 3

\* msg.date is None
NoDate == <<>>

VARIABLES
    pc,                 \* position of the application's single thread of control
    check_interval,     \* config.app.check_interval
    minutes_to_wait,    \* config.app.minutes_to_wait
    max_retry_attempts, \* config.app.max_retry_attempts
    retry_count,        \* NetflixVerifyBot._retry_count
    wait_time,          \* local wait_time of _run_main_loop (0 before the first wait)
    mailbox,            \* EmailHandler.mailbox is not None
    processed_emails,   \* EmailHandler._processed_emails
    check_count,        \* local check_count of run_email_loop
    current_time,       \* local current_time of check_emails
    fetched,            \* messages of the running fetch not yet handed to _process_email
    ops,                \* operations issued by the last _process_email call, in order
    exit_code,          \* process exit status, -1 while running
    folder,             \* server: uid -> "none" | "inbox" | "archive"
    mail,               \* server: uid -> message record
    now,                \* wall clock
    polls_left,         \* fetches the run still issues (the horizon of the run)
    session_polled,     \* observer: a check_emails cycle completed in the current session
    failed_streak,      \* observer: failed session attempts since the last completed cycle,
                        \* counted up to max_retry_attempts
    email_config,       \* config.email
    telegram_config,    \* config.telegram
    connection_start_time, \* main.py: the global connection_start_time; for the modular
                        \* application, which keeps no such field, an observer: the time
                        \* at which the live session was established
    cycles_since_clear, \* observer: check_emails cycles completed since _processed_emails
                        \* was last emptied (since the start, before the first time);
                        \* NotObserved in the runs that do not follow it
    notification,       \* the log_info / log_warning / log_error call under observation
    extraction,         \* the _extract_netflix_url call under observation
    scraper             \* the WebScrapingManager call under observation

vars == <<pc, check_interval, minutes_to_wait, max_retry_attempts, retry_count,
          wait_time, mailbox, processed_emails, check_count, current_time, fetched,
          ops, exit_code, folder, mail, now, polls_left, session_polled, failed_streak,
          email_config, telegram_config, connection_start_time, cycles_since_clear,
          notification, extraction, scraper>>

cfgVars == <<check_interval, minutes_to_wait, max_retry_attempts, email_config,
             telegram_config>>
serverVars == <<folder, mail, now>>
obsVars == <<polls_left, session_polled, failed_streak>>
handlerVars == <<processed_emails, check_count, current_time, fetched, ops>>
callVars == <<notification, extraction, scraper>>

\* no call is under observation
NoCall == <<>>
\* cycles_since_clear in a run that does not follow it
NotObserved == -1

\* server: uid -> "none" (not delivered yet) | "inbox" | "archive" | "gone"
\* the uids the server hands out in this run
UIDs == DOMAIN folder

Min(a, b) == IF a < b THEN a ELSE b

RECURSIVE Pow2(_)
Pow2(n) == IF n <= 0 THEN 1 ELSE 2 * Pow2(n - 1)

(* ----------------------- message bodies and extraction ------------------ *)
\* A body (msg.html or msg.text) is a sequence of text fragments.  Each fragment
\* stands for the literal text of its name; the searches of the code
\* (substring test, str.find, re.search) act on the fragments.
AccountAccessUrl == "https://www.netflix.com/accountaccess"
TravelVerifyUrl == "https://www.netflix.com/account/travel/verify"
UpdateLocationUrl == "https://www.netflix.com/account/update-primary-location"
Quote == "\""
TdCode == "<td> 4821 </td>"
TdLong == "<td> 48215 </td>"
Text == "text"

\* the searched strings that occur inside a fragment
Substrings(frag) ==
    CASE frag = AccountAccessUrl -> {AccountAccessUrl, "accountaccess"}
      [] frag = TravelVerifyUrl -> {TravelVerifyUrl, "travel/verify"}
      [] frag = UpdateLocationUrl -> {UpdateLocationUrl, "update-primary-location"}
      [] OTHER -> {frag}

\* Python: s in html
Contains(html, s) == \E i \in DOMAIN html : s \in Substrings(html[i])

\* Python: html.find(s, start); positions are 1-based here and 0 stands for -1
Find(html, s, start) ==
    LET hits == {i \in DOMAIN html : i >= start /\ s \in Substrings(html[i])}
    IN  IF hits = {} THEN 0 ELSE CHOOSE i \in hits : \A j \in hits : i <= j

None == <<"None">>

\* an exception leaves the block
Raised == <<"raised">>

\* the try block with the quote searched from the start of the body
ExtractNetflixUrlTry_QuoteFromStart(html, base_url) ==
    IF html = None THEN Raised
    ELSE LET start == Find(html, base_url, 1)
             end == Find(html, Quote, 1)
         IN  IF start = 0 THEN None
             ELSE IF end = 0 THEN None
             ELSE SubSeq(html, start, end - 1)

\* the try block of EmailHandler._extract_netflix_url; html.find raises for an
\* html that is None
ExtractNetflixUrlTry(html, base_url) ==
    IF html = None THEN Raised
    ELSE LET start == Find(html, base_url, 1)
             end == Find(html, Quote, start)
         IN  IF start = 0 THEN None
             ELSE IF end = 0 THEN None
             ELSE SubSeq(html, start, end - 1)

\* EmailHandler._extract_netflix_url: the try block, and None from its except
ExtractNetflixUrl(html, base_url) ==
    LET url == ExtractNetflixUrlTry(html, base_url)
    IN  IF url = Raised THEN None ELSE url

\* EmailHandler._extract_verification_code_from_html
ExtractVerificationCode(html) ==
    IF \E i \in DOMAIN html : html[i] = TdCode THEN <<"4821">> ELSE None

\* the bodies the server delivers
Bodies ==
    { <<Text>>,
      <<AccountAccessUrl, Quote, TdCode>>,
      <<AccountAccessUrl, Quote, TdLong>>,
      <<"accountaccess">>,
      <<TravelVerifyUrl, Quote>>,
      <<UpdateLocationUrl, Quote>>,
      <<TravelVerifyUrl, Quote, AccountAccessUrl, Quote>> }

\* the (date, subject) headers the server delivers; dated messages carry the
\* clock's origin, so that their age is the clock
Headers == { <<<<0>>, "Netflix">>, <<<<0>>, "">>, <<NoDate, "Netflix">> }
\* the headers the server delivers in a run with more than one uid
BatchHeaders == { <<<<0>>, "Netflix">> }

(* ------------------------------ messages ------------------------------- *)
NoMail == [uid |-> 0, date |-> NoDate, subject |-> "", seen |-> FALSE, body |-> <<>>]

\* email_id of EmailHandler._process_email: uid_date_subject, or str(uid)
FP(msg) ==
    IF msg.uid # 0 /\ msg.date # NoDate /\ msg.subject # ""
    THEN <<msg.uid, msg.date[1], msg.subject>>
    ELSE <<msg.uid>>

\* EmailHandler._should_move_old_email
ShouldMoveOldEmail(msg, ct) ==
    IF msg.date = NoDate THEN FALSE
    ELSE LET time_diff == ct - msg.date[1]
             is_old == time_diff > minutes_to_wait
             is_read == msg.seen
         IN  is_old /\ is_read

(* --------------------- handling of one fetched message ------------------ *)
\* Outcomes the collaborators can produce for one call.
\*   mailbox.move: it returns, or raises with a text holding "not found" /
\*   "already moved", or raises with another text.
MoveOutcomes == {"ok", "not found", "error"}
\*   The server's answer for a message: one that is in the active folder is moved
\*   or the request fails; for one that is not there any more the server ignores
\*   the request, or refuses it naming the cause, or the request fails.
ServerMoveOutcomes(present) == IF present THEN {"ok", "error"} ELSE MoveOutcomes
\*   Playwright, for one use of the WebScraper context manager: the start of
\*   the driver, the launch of the browser, the opening of the page, the work on
\*   the page (a truthy result: the code text, or status 200; a falsy result: an
\*   empty text, or another status or no response; a selector timeout; a
\*   navigation error), the close of the browser, the stop of the driver.
ClickOutcomes == {"found", "empty", "timeout", "navigation_error"}
ScraperRuns ==
    [start : {"ok", "error"}, launch : {"ok", "error"}, page : {"ok", "error"},
     click : ClickOutcomes, close : {"ok", "error"}, stop : {"ok", "error"}]

\* the launch failure leaving _initialize_browser as it was raised
WebScraperSession_LaunchUnwrapped(run) ==
    IF run.start = "error"
    THEN [value |-> "none", raised |-> "WebScrapingError", playwright |-> FALSE,
          browser |-> FALSE]
    ELSE IF run.launch = "error"
    THEN [value |-> "none", raised |-> "Exception", playwright |-> TRUE, browser |-> FALSE]
    ELSE IF run.page = "error"
    THEN [value |-> "none", raised |-> "WebScrapingError", playwright |-> TRUE,
          browser |-> TRUE]
    ELSE [value |-> IF run.click = "found" THEN "truthy"
                    ELSE IF run.click = "empty" THEN "falsy" ELSE "none",
          raised |-> IF run.click \in {"timeout", "navigation_error"}
                     THEN "WebScrapingError" ELSE "none",
          playwright |-> ~(run.close = "ok" /\ run.stop = "ok"),
          browser |-> run.close # "ok"]

\* async with WebScraper(...) as scraper: return await scraper.click_...(url)
\* __aenter__ runs _initialize_browser, which wraps what start, launch and
\* new_page raise in WebScrapingError; when it raises the block is not entered
\* and __aexit__ is not run.  Otherwise the click method returns its value or
\* raises WebScrapingError, and __aexit__ runs _close_browser: browser.close(),
\* then playwright.stop(), a failure of either logged as a warning (stop is not
\* called when close raised).  playwright and browser tell whether the driver
\* is still running and the browser still open when the statement is left.
WebScraperSession(run) ==
    IF run.start = "error"
    THEN [value |-> "none", raised |-> "WebScrapingError", playwright |-> FALSE,
          browser |-> FALSE]
    ELSE IF run.launch = "error"
    THEN [value |-> "none", raised |-> "WebScrapingError", playwright |-> TRUE,
          browser |-> FALSE]
    ELSE IF run.page = "error"
    THEN [value |-> "none", raised |-> "WebScrapingError", playwright |-> TRUE,
          browser |-> TRUE]
    ELSE [value |-> IF run.click = "found" THEN "truthy"
                    ELSE IF run.click = "empty" THEN "falsy" ELSE "none",
          raised |-> IF run.click \in {"timeout", "navigation_error"}
                     THEN "WebScrapingError" ELSE "none",
          playwright |-> ~(run.close = "ok" /\ run.stop = "ok"),
          browser |-> run.close # "ok"]

\* WebScrapingManager.process_verification_link / process_confirmation_link:
\* the WebScraper session inside try / except WebScrapingError.  The outcome is
\* a truthy result, a falsy result, a WebScrapingError caught (logged, None or
\* False returned), or another exception, which the method lets through.
ManagerCall(run) ==
    LET session == WebScraperSession(run)
    IN  [outcome |-> IF session.raised = "WebScrapingError" THEN "scraping_error"
                     ELSE IF session.raised # "none" THEN "raised"
                     ELSE IF session.value = "truthy" THEN "success"
                     ELSE "nothing",
         playwright |-> session.playwright,
         browser |-> session.browser]

\*   WebScrapingManager.process_verification_link / process_confirmation_link:
\*   the outcomes Playwright can make them have.
BrowserOutcomes == { ManagerCall(run).outcome : run \in ScraperRuns }

\* _move_email_to_gelesen catching only the already-moved and not-found errors:
\* any other error of the request leaves the function
MoveEmailToGelesen_ErrorEscapes(connected, moveOut) ==
    IF ~connected
    THEN [ops |-> <<"log_error", "status_FAILED">>, moved |-> FALSE, status |-> "FAILED"]
    ELSE IF moveOut = "ok"
    THEN [ops |-> <<"move", "log_info", "status_SUCCESS">>,
          moved |-> TRUE, status |-> "SUCCESS"]
    ELSE IF moveOut = "not found"
    THEN [ops |-> <<"move", "raise_not_found", "log_debug", "status_SUCCESS">>,
          moved |-> FALSE, status |-> "SUCCESS"]
    ELSE [ops |-> <<"move", "raise_other", "raise">>, moved |-> FALSE, status |-> "RAISED"]

\* _move_email_to_gelesen with only "already moved" recognised
MoveEmailToGelesen_NotFoundIsError(connected, moveOut) ==
    IF ~connected
    THEN [ops |-> <<"log_error", "status_FAILED">>, moved |-> FALSE, status |-> "FAILED"]
    ELSE IF moveOut = "ok"
    THEN [ops |-> <<"move", "log_info", "status_SUCCESS">>,
          moved |-> TRUE, status |-> "SUCCESS"]
    ELSE IF moveOut = "not found"
    THEN [ops |-> <<"move", "raise_not_found", "log_error", "status_FAILED">>,
          moved |-> FALSE, status |-> "FAILED"]
    ELSE [ops |-> <<"move", "raise_other", "log_error", "status_FAILED">>,
          moved |-> FALSE, status |-> "FAILED"]

\* EmailHandler._move_email_to_gelesen: the operations it issues (the move
\* request, what the request raised, the log calls, the status written by
\* _log_email_moved), whether the server accepted the request, and the status.
MoveEmailToGelesen(connected, moveOut) ==
    IF ~connected
    THEN [ops |-> <<"log_error", "status_FAILED">>, moved |-> FALSE, status |-> "FAILED"]
    ELSE IF moveOut = "ok"
    THEN [ops |-> <<"move", "log_info", "status_SUCCESS">>,
          moved |-> TRUE, status |-> "SUCCESS"]
    ELSE IF moveOut = "not found"
    THEN [ops |-> <<"move", "raise_not_found", "log_debug", "status_SUCCESS">>,
          moved |-> FALSE, status |-> "SUCCESS"]
    ELSE [ops |-> <<"move", "raise_other", "log_error", "status_FAILED">>,
          moved |-> FALSE, status |-> "FAILED"]

NotMoved(o) == [ops |-> o, moved |-> FALSE, status |-> "NONE"]

After(o, r) == [ops |-> o \o r.ops, moved |-> r.moved, status |-> r.status]

\* the account-access handler leaving the message where it is
ProcessAccountAccessEmail_NoMove(html, connected, moveOut) ==
    LET url == ExtractNetflixUrl(html, AccountAccessUrl)
        verification_code == ExtractVerificationCode(html)
    IN  IF url = None THEN NotMoved(<<"extract_url">>)
        ELSE NotMoved(<<"extract_url", "log_info", "extract_code",
                        IF verification_code # None THEN "log_info" ELSE "log_warning">>)

\* EmailHandler._process_account_access_email
ProcessAccountAccessEmail(html, connected, moveOut) ==
    LET url == ExtractNetflixUrl(html, AccountAccessUrl)
        verification_code == ExtractVerificationCode(html)
    IN  IF url = None THEN NotMoved(<<"extract_url">>)
        ELSE After(<<"extract_url", "log_info", "extract_code",
                     IF verification_code # None THEN "log_info" ELSE "log_warning">>,
                   MoveEmailToGelesen(connected, moveOut))

\* WebScrapingManager.process_verification_link: the code, or None
ProcessVerificationLink(browserOut) ==
    IF browserOut = "success" THEN <<"4821">> ELSE None

\* WebScrapingManager.process_confirmation_link
ProcessConfirmationLink(browserOut) == browserOut = "success"

BrowserOps(browserOut) ==
    IF browserOut = "scraping_error" THEN <<"browser", "log_error">> ELSE <<"browser">>

\* the handler is left by an exception of the browser manager
ManagerRaised ==
    [ops |-> <<"extract_url", "log_info", "browser", "raise">>, moved |-> FALSE,
     status |-> "RAISED"]

\* EmailHandler._process_travel_verify_email
ProcessTravelVerifyEmail(html, connected, moveOut, browserOut) ==
    LET url == ExtractNetflixUrl(html, TravelVerifyUrl)
        verification_code == ProcessVerificationLink(browserOut)
    IN  IF url = None THEN NotMoved(<<"extract_url">>)
        ELSE IF browserOut = "raised" THEN ManagerRaised
        ELSE IF verification_code # None
        THEN After(<<"extract_url", "log_info">> \o BrowserOps(browserOut) \o <<"log_info">>,
                   MoveEmailToGelesen(connected, moveOut))
        ELSE After(<<"extract_url", "log_info">> \o BrowserOps(browserOut) \o <<"log_warning">>,
                   MoveEmailToGelesen(connected, moveOut))

\* EmailHandler._process_update_location_email
ProcessUpdateLocationEmail(html, connected, moveOut, browserOut) ==
    LET url == ExtractNetflixUrl(html, UpdateLocationUrl)
        confirmation_successful == ProcessConfirmationLink(browserOut)
    IN  IF url = None THEN NotMoved(<<"extract_url">>)
        ELSE IF browserOut = "raised" THEN ManagerRaised
        ELSE IF confirmation_successful
        THEN After(<<"extract_url", "log_info">> \o BrowserOps(browserOut) \o <<"log_info">>,
                   MoveEmailToGelesen(connected, moveOut))
        ELSE After(<<"extract_url", "log_info">> \o BrowserOps(browserOut) \o <<"log_warning">>,
                   MoveEmailToGelesen(connected, moveOut))

\* the chain with the travel/verify test first
Branch_TravelVerifyFirst(html) ==
    IF Contains(html, "travel/verify") THEN "travel/verify"
    ELSE IF Contains(html, "accountaccess") THEN "accountaccess"
    ELSE IF Contains(html, "update-primary-location") THEN "update-primary-location"
    ELSE "none"

\* the last elif of the chain written as an else
Branch_LastIsElse(html) ==
    IF Contains(html, "accountaccess") THEN "accountaccess"
    ELSE IF Contains(html, "travel/verify") THEN "travel/verify"
    ELSE "update-primary-location"

\* the if / elif chain of EmailHandler._process_email: the branch taken for a body
Branch(html) ==
    IF Contains(html, "accountaccess") THEN "accountaccess"
    ELSE IF Contains(html, "travel/verify") THEN "travel/verify"
    ELSE IF Contains(html, "update-primary-location") THEN "update-primary-location"
    ELSE "none"

\* the add of email_id placed before the handling branch
WithAdd_AddFirst(r, add) ==
    [ops |-> IF add THEN <<"add">> \o r.ops ELSE r.ops,
     moved |-> r.moved, status |-> r.status, add |-> add]

\* the result of a handling branch, with the add of email_id that follows it
WithAdd(r, add) ==
    [ops |-> IF add THEN r.ops \o <<"add">> ELSE r.ops,
     moved |-> r.moved, status |-> r.status, add |-> add]

\* the lines of _process_email after a browser-backed branch: the add of
\* email_id when the branch returned; when it raised, the except clause of the
\* for loop of check_emails, which logs a warning
AfterBranch(r) ==
    IF r.status = "RAISED"
    THEN WithAdd([r EXCEPT !.ops = r.ops \o <<"log_warning">>], FALSE)
    ELSE WithAdd(r, TRUE)

\* EmailHandler._process_email after the duplicate check: the age rule, then the
\* branch for the body
Dispatch(msg, ct, connected, moveOut, browserOut) ==
    LET html == msg.body
        b == Branch(html)
    IN  IF ShouldMoveOldEmail(msg, ct)
        THEN WithAdd(After(<<"age_check">>, MoveEmailToGelesen(connected, moveOut)), TRUE)
        ELSE IF b = "accountaccess"
        THEN WithAdd(After(<<"age_check", "classify">>,
                           ProcessAccountAccessEmail(html, connected, moveOut)), TRUE)
        ELSE IF b = "travel/verify"
        THEN AfterBranch(After(<<"age_check", "classify">>,
                               ProcessTravelVerifyEmail(html, connected, moveOut,
                                                        browserOut)))
        ELSE IF b = "update-primary-location"
        THEN AfterBranch(After(<<"age_check", "classify">>,
                               ProcessUpdateLocationEmail(html, connected, moveOut,
                                                          browserOut)))
        ELSE WithAdd(NotMoved(<<"age_check", "classify">>), FALSE)

\* the fingerprint added before the handling that raises
ProcessEmailRaises_Added == WithAdd_AddFirst(NotMoved(<<"raise", "log_warning">>), TRUE)

\* _process_email raises after its duplicate check (msg.html or msg.flags
\* raise, the subtraction of a date without time zone raises, the import of
\* web_scraper fails): nothing was moved or
\* added; check_emails logs a warning and continues with the next message
ProcessEmailRaises == WithAdd(NotMoved(<<"raise", "log_warning">>), FALSE)

\* the duplicate check left out
ProcessEmail_NoDedup(msg, ct, processed, connected, moveOut, browserOut, raises) ==
    IF raises THEN ProcessEmailRaises
    ELSE Dispatch(msg, ct, connected, moveOut, browserOut)

\* EmailHandler._process_email as called by the for loop of check_emails: the
\* operations issued in order, whether the message was moved, and whether
\* email_id was added to _processed_emails.
ProcessEmail(msg, ct, processed, connected, moveOut, browserOut, raises) ==
    LET email_id == FP(msg)
    IN  IF email_id \in processed
        THEN WithAdd(NotMoved(<<"log_debug">>), FALSE)
        ELSE IF raises THEN ProcessEmailRaises
        ELSE Dispatch(msg, ct, connected, moveOut, browserOut)

(* ------------------------------ configuration -------------------------- *)
CheckIntervals == {0, DefaultCheckInterval}
MinutesToWait == {0, 1}
MaxRetryAttempts == -1..MaxRetryLimit

\* A configuration string is a sequence of text fragments, the empty sequence
\* standing for "" and for None (both are falsy); an API key is a sequence of
\* characters.
Emails == { <<>>, <<"user">>, <<"user", "@", "host">> }
Passwords == { <<>>, <<"password">> }
ImapServers == { <<>>, <<"imap.host">> }
ImapPorts == { 0, 1, 993, 65535, 65536 }
ApiKey(n) == [i \in 1..n |-> "k"]
ApiKeys == { ApiKey(0), ApiKey(9), ApiKey(10) }
ApiUrls == { <<>>, <<"ftp://", "host">>, <<"http://", "host">>, <<"https://", "host">>,
             <<"HTTP://", "host">> }
ChannelNames == { <<>>, <<"channel">> }
ChannelSecrets == { <<>>, <<"secret">> }

EmailConfigs ==
    [email : Emails, password : Passwords, imap_server : ImapServers, imap_port : ImapPorts]

\* config._load_telegram_config: enabled only if all four fields are present
LoadTelegramConfig(api_key, api_url, channel_name, channel_secret) ==
    [api_key |-> api_key, api_url |-> api_url, channel_name |-> channel_name,
     channel_secret |-> channel_secret,
     enabled |-> (api_key # <<>> /\ api_url # <<>> /\ channel_name # <<>>
                  /\ channel_secret # <<>>)]

TelegramConfigs ==
    { LoadTelegramConfig(k, u, n, c) :
        k \in ApiKeys, u \in ApiUrls, n \in ChannelNames, c \in ChannelSecrets }

\* the configuration of a deployment in use
DeployedEmailConfig ==
    [email |-> <<"user", "@", "host">>, password |-> <<"password">>,
     imap_server |-> <<"imap.host">>, imap_port |-> 993]
DeployedTelegramConfig ==
    LoadTelegramConfig(ApiKey(10), <<"https://", "host">>, <<"channel">>, <<"secret">>)

\* Python: s in text
HasFragment(text, s) == \E i \in DOMAIN text : text[i] = s

\* Python: text.startswith(prefixes)
StartsWith(text, prefixes) == Len(text) >= 1 /\ text[1] \in prefixes

\* the port test written with < for <=
ValidateConfig_PortOffByOne ==
    IF email_config.email = <<>> \/ ~HasFragment(email_config.email, "@")
    THEN "Invalid email address"
    ELSE IF email_config.password = <<>> THEN "Email password cannot be empty"
    ELSE IF email_config.imap_server = <<>> THEN "IMAP server cannot be empty"
    ELSE IF ~(1 <= email_config.imap_port /\ email_config.imap_port < 65535)
    THEN "Invalid IMAP port"
    ELSE IF check_interval <= 0 THEN "Invalid check interval"
    ELSE IF minutes_to_wait <= 0 THEN "Invalid minutes to wait"
    ELSE IF max_retry_attempts <= 0 THEN "Invalid max retry attempts"
    ELSE IF telegram_config.enabled
            /\ ~StartsWith(telegram_config.api_url, {"http://", "https://"})
    THEN "Invalid Telegram API URL"
    ELSE IF telegram_config.enabled /\ Len(telegram_config.api_key) < 10
    THEN "Telegram API key appears to be invalid (too short)"
    ELSE "ok"

\* config.validate_config: the ConfigError it raises, or "ok" when it returns
ValidateConfig ==
    IF email_config.email = <<>> \/ ~HasFragment(email_config.email, "@")
    THEN "Invalid email address"
    ELSE IF email_config.password = <<>> THEN "Email password cannot be empty"
    ELSE IF email_config.imap_server = <<>> THEN "IMAP server cannot be empty"
    ELSE IF ~(1 <= email_config.imap_port /\ email_config.imap_port <= 65535)
    THEN "Invalid IMAP port"
    ELSE IF check_interval <= 0 THEN "Invalid check interval"
    ELSE IF minutes_to_wait <= 0 THEN "Invalid minutes to wait"
    ELSE IF max_retry_attempts <= 0 THEN "Invalid max retry attempts"
    ELSE IF telegram_config.enabled
            /\ ~StartsWith(telegram_config.api_url, {"http://", "https://"})
    THEN "Invalid Telegram API URL"
    ELSE IF telegram_config.enabled /\ Len(telegram_config.api_key) < 10
    THEN "Telegram API key appears to be invalid (too short)"
    ELSE "ok"

\* config.validate_config, the checks on config.app
ValidAppConfig ==
    /\ ~(check_interval <= 0)
    /\ ~(minutes_to_wait <= 0)
    /\ ~(max_retry_attempts <= 0)

\* connection_start_time is None
NoTime == <<>>

(* ------------------------------ initial state -------------------------- *)
\* NetflixVerifyBot.__init__ and EmailHandler.__init__ on a loaded Config
AppInit(intervals, waits, attempts, emails, telegrams, uids, polls) ==
    /\ pc = "Start"
    /\ check_interval \in intervals
    /\ minutes_to_wait \in waits
    /\ max_retry_attempts \in attempts
    /\ email_config \in emails
    /\ telegram_config \in telegrams
    /\ retry_count = 0
    /\ wait_time = 0
    /\ mailbox = FALSE
    /\ connection_start_time = NoTime
    /\ processed_emails = {}
    /\ check_count = 0
    /\ current_time = 0
    /\ fetched = <<>>
    /\ ops = <<>>
    /\ exit_code = -1
    /\ folder = [u \in 1..uids |-> "none"]
    /\ mail = [u \in 1..uids |-> NoMail]
    /\ now = 0
    /\ polls_left = polls
    /\ session_polled = FALSE
    /\ failed_streak = 0

\* the application started on a loaded Config, no collaborator call singled out
InitWith(intervals, waits, attempts, emails, telegrams, uids, polls) ==
    /\ AppInit(intervals, waits, attempts, emails, telegrams, uids, polls)
    /\ cycles_since_clear = NotObserved
    /\ notification = NoCall
    /\ extraction = NoCall
    /\ scraper = NoCall

(* ------------------------------ the server ----------------------------- *)
\* The active folder and the clock are observed by a fetch and by the requests
\* that follow it, so their changes are taken at the point where the next fetch
\* is about to be issued, as long as the run has a fetch to issue.
\* A message arrives; the server hands out uids in ascending order.
Deliver ==
    /\ pc = "Polling"
    /\ polls_left > 0
    /\ \E u \in UIDs, h \in IF Cardinality(UIDs) = 1 THEN Headers ELSE BatchHeaders,
          b \in Bodies :
        /\ folder[u] = "none"
        /\ \A v \in UIDs : v < u => folder[v] # "none"
        /\ folder' = [folder EXCEPT ![u] = "inbox"]
        /\ mail' = [mail EXCEPT ![u] =
                      [uid |-> u, date |-> h[1], subject |-> h[2], seen |-> FALSE,
                       body |-> b]]
    /\ UNCHANGED <<callVars, cycles_since_clear, connection_start_time, pc, cfgVars,
                   retry_count, wait_time, mailbox, handlerVars,
                   exit_code, now, polls_left, session_polled, failed_streak>>

\* A message of the active folder gets the \Seen flag (a mail client, or a fetch).
MarkSeen ==
    /\ pc = "Polling"
    /\ polls_left > 0
    /\ \E u \in UIDs :
        /\ folder[u] = "inbox"
        /\ ~mail[u].seen
        /\ mail' = [mail EXCEPT ![u].seen = TRUE]
    /\ UNCHANGED <<callVars, cycles_since_clear, connection_start_time, pc, cfgVars,
                   retry_count, wait_time, mailbox, handlerVars,
                   exit_code, folder, now, polls_left, session_polled, failed_streak>>

\* Another client moves or deletes a message of the active folder, between two
\* polls or while a fetched batch is being handled.
Expunge ==
    /\ \/ pc = "Polling" /\ polls_left > 0
       \/ pc = "Processing"
    /\ \E u \in UIDs, to \in {"archive", "gone"} :
        /\ folder[u] = "inbox"
        /\ folder' = [folder EXCEPT ![u] = to]
        /\ mail' = [mail EXCEPT ![u] = NoMail]
    /\ UNCHANGED <<callVars, cycles_since_clear, connection_start_time, pc, cfgVars,
                   retry_count, wait_time, mailbox,
                   handlerVars, exit_code, now, polls_left, session_polled, failed_streak>>

\* Time passes.
Tick ==
    /\ pc = "Polling"
    /\ polls_left > 0
    /\ now < MaxTime
    /\ now' = now + 1
    /\ UNCHANGED <<callVars, cycles_since_clear, connection_start_time, pc, cfgVars,
                   retry_count, wait_time, mailbox, handlerVars,
                   exit_code, folder, mail, polls_left, session_polled, failed_streak>>

\* mailbox.fetch(reverse=True): the messages of the active folder, newest first
RECURSIVE FetchFrom(_)
FetchFrom(u) ==
    IF u = 0 THEN <<>>
    ELSE IF folder[u] = "inbox" THEN <<mail[u]>> \o FetchFrom(u - 1)
    ELSE FetchFrom(u - 1)

(* ------------------------------ the application ------------------------ *)
\* mailbox.logout(): it returns, or raises (the connection is already dead)
LogoutOutcomes == {"ok", "error"}

\* disconnect with the handle cleared on the success path only
Disconnect_NoFinally(connected, logoutOut) ==
    IF ~connected THEN [mailbox |-> FALSE, ops |-> <<>>, raised |-> FALSE]
    ELSE IF logoutOut = "ok"
    THEN [mailbox |-> FALSE, ops |-> <<"logout", "log_info">>, raised |-> FALSE]
    ELSE [mailbox |-> TRUE, ops |-> <<"logout", "log_warning">>, raised |-> FALSE]

\* EmailHandler.disconnect: whether the handle is set when it is left, the
\* operations it issues, and whether an exception leaves it
Disconnect(connected, logoutOut) ==
    IF ~connected THEN [mailbox |-> FALSE, ops |-> <<>>, raised |-> FALSE]
    ELSE IF logoutOut = "ok"
    THEN [mailbox |-> FALSE, ops |-> <<"logout", "log_info">>, raised |-> FALSE]
    ELSE [mailbox |-> FALSE, ops |-> <<"logout", "log_warning">>, raised |-> FALSE]

\* start without _test_configuration
Start_NoValidation ==
    /\ pc = "Start"
    /\ pc' = "Connecting"
    /\ exit_code' = exit_code
    /\ UNCHANGED <<callVars, cycles_since_clear, connection_start_time, cfgVars, retry_count,
                   wait_time, mailbox, handlerVars, serverVars, obsVars>>

\* NetflixVerifyBot.start: _test_configuration, _show_startup_info, and the
\* first test of the loop condition of _run_main_loop
Start ==
    /\ pc = "Start"
    /\ IF ValidateConfig = "ok"
       THEN /\ pc' = "Connecting"
            /\ exit_code' = exit_code
       ELSE /\ pc' = "ConfigError"
            /\ exit_code' = 1
    /\ UNCHANGED <<callVars, cycles_since_clear, connection_start_time, cfgVars, retry_count,
                   wait_time, mailbox, handlerVars,
                   serverVars, obsVars>>

\* connect building a new, empty set of fingerprints
ConnectOk_FreshSet ==
    /\ pc = "Connecting"
    /\ mailbox' = TRUE
    /\ check_count' = 0
    /\ session_polled' = FALSE
    /\ connection_start_time' = <<now>>
    /\ pc' = "Polling"
    /\ processed_emails' = {}
    /\ UNCHANGED <<callVars, cycles_since_clear, cfgVars, retry_count, wait_time,
                   current_time,
                   fetched, ops, exit_code, serverVars, polls_left, failed_streak>>

\* EmailHandler.connect succeeds; run_email_loop starts with check_count = 0
ConnectOk ==
    /\ pc = "Connecting"
    /\ mailbox' = TRUE
    /\ check_count' = 0
    /\ session_polled' = FALSE
    /\ connection_start_time' = <<now>>
    /\ pc' = "Polling"
    /\ UNCHANGED <<callVars, cycles_since_clear, cfgVars, retry_count, wait_time,
                   processed_emails, current_time,
                   fetched, ops, exit_code, serverVars, polls_left, failed_streak>>

\* the shutdown test written with > for >=
FailedAttempt_OffByOne ==
    LET count == retry_count + 1
    IN  /\ retry_count' = count
        /\ IF count > max_retry_attempts
           THEN /\ pc' = "ShutDown"
                /\ exit_code' = 0
                /\ wait_time' = wait_time
           ELSE /\ pc' = "Backoff"
                /\ exit_code' = exit_code
                /\ wait_time' = check_interval * Pow2(count - 1)

\* the failure counted twice
FailedAttempt_DoubleCount ==
    LET count == retry_count + 2
    IN  /\ retry_count' = count
        /\ IF count >= max_retry_attempts
           THEN /\ pc' = "ShutDown"
                /\ exit_code' = 0
                /\ wait_time' = wait_time
           ELSE /\ pc' = "Backoff"
                /\ exit_code' = exit_code
                /\ wait_time' = check_interval * Pow2(count - 1)

\* the exponent taken as the counter, not the counter minus one
FailedAttempt_WrongExponent ==
    LET count == retry_count + 1
    IN  /\ retry_count' = count
        /\ IF count >= max_retry_attempts
           THEN /\ pc' = "ShutDown"
                /\ exit_code' = 0
                /\ wait_time' = wait_time
           ELSE /\ pc' = "Backoff"
                /\ exit_code' = exit_code
                /\ wait_time' = check_interval * Pow2(count)

\* the shutdown after the last attempt leaving with status 1
FailedAttempt_ExitOne ==
    LET count == retry_count + 1
    IN  /\ retry_count' = count
        /\ IF count >= max_retry_attempts
           THEN /\ pc' = "ShutDown"
                /\ exit_code' = 1
                /\ wait_time' = wait_time
           ELSE /\ pc' = "Backoff"
                /\ exit_code' = exit_code
                /\ wait_time' = check_interval * Pow2(count - 1)

\* the except branch of NetflixVerifyBot._run_main_loop: count the failure, then
\* shut down (sys.exit(0), start's finally runs _cleanup) or compute the backoff
\* and sleep
FailedAttempt ==
    LET count == retry_count + 1
    IN  /\ retry_count' = count
        /\ IF count >= max_retry_attempts
           THEN /\ pc' = "ShutDown"
                /\ exit_code' = 0
                /\ wait_time' = wait_time
           ELSE /\ pc' = "Backoff"
                /\ exit_code' = exit_code
                /\ wait_time' = check_interval * Pow2(count - 1)

\* the while condition of NetflixVerifyBot._run_main_loop; when it is false
\* _run_main_loop returns and start ends through _cleanup
LoopTest(count) == IF count < max_retry_attempts THEN "Connecting" ELSE "Stopped"

\* EmailHandler.connect raises EmailConnectionError
ConnectFail ==
    /\ pc = "Connecting"
    /\ mailbox' = FALSE
    /\ FailedAttempt
    /\ failed_streak' = Min(failed_streak + 1, max_retry_attempts)
    /\ UNCHANGED <<callVars, cycles_since_clear, connection_start_time, cfgVars, handlerVars,
                   serverVars, polls_left, session_polled>>

\* asyncio.sleep(wait_time) returns; the loop condition is tested again
BackoffDone ==
    /\ pc = "Backoff"
    /\ pc' = LoopTest(retry_count)
    /\ exit_code' = IF LoopTest(retry_count) = "Stopped" THEN 0 ELSE exit_code
    /\ UNCHANGED <<callVars, cycles_since_clear, connection_start_time, cfgVars, retry_count,
                   wait_time, mailbox, handlerVars,
                   serverVars, obsVars>>

\* EmailHandler.check_emails: current_time is taken and the fetch is issued
Fetch ==
    /\ pc = "Polling"
    /\ mailbox
    /\ polls_left > 0
    /\ polls_left' = polls_left - 1
    /\ current_time' = now
    /\ fetched' = FetchFrom(Cardinality(UIDs))
    /\ ops' = <<>>
    /\ pc' = "Processing"
    /\ UNCHANGED <<callVars, cycles_since_clear, connection_start_time, cfgVars, retry_count,
                   wait_time, mailbox, processed_emails,
                   check_count, exit_code, serverVars, session_polled, failed_streak>>

\* the for loop of check_emails without the try around _process_email: what
\* a message raises reaches the outer except, which logs it as a non-critical
\* error and returns, leaving the rest of the batch
ProcessOne_RaiseEndsCycle ==
    /\ pc = "Processing"
    /\ fetched # <<>>
    /\ \E moveOut \in ServerMoveOutcomes(folder[Head(fetched).uid] = "inbox"),
          browserOut \in BrowserOutcomes, raises \in BOOLEAN :
        LET msg == Head(fetched)
            r == ProcessEmail(msg, current_time, processed_emails, mailbox,
                              moveOut, browserOut, raises)
            moved == r.moved /\ folder[msg.uid] = "inbox"
            raised == \E i \in DOMAIN r.ops : r.ops[i] = "raise"
        IN  /\ ops' = r.ops
            /\ folder' = IF moved THEN [folder EXCEPT ![msg.uid] = "archive"] ELSE folder
            /\ mail' = IF moved THEN [mail EXCEPT ![msg.uid] = NoMail] ELSE mail
            /\ processed_emails' = IF r.add THEN processed_emails \cup {FP(msg)}
                                   ELSE processed_emails
            /\ fetched' = IF raised THEN <<>> ELSE Tail(fetched)
    /\ UNCHANGED <<callVars, cycles_since_clear, connection_start_time, pc, cfgVars,
                   retry_count, wait_time, mailbox,
                   check_count, current_time, exit_code, now, obsVars>>

\* one pass of the for loop of check_emails: _process_email on the next message
ProcessOne ==
    /\ pc = "Processing"
    /\ fetched # <<>>
    /\ \E moveOut \in ServerMoveOutcomes(folder[Head(fetched).uid] = "inbox"),
          browserOut \in BrowserOutcomes, raises \in BOOLEAN :
        LET msg == Head(fetched)
            r == ProcessEmail(msg, current_time, processed_emails, mailbox,
                              moveOut, browserOut, raises)
            moved == r.moved /\ folder[msg.uid] = "inbox"
        IN  /\ ops' = r.ops
            /\ folder' = IF moved THEN [folder EXCEPT ![msg.uid] = "archive"] ELSE folder
            /\ mail' = IF moved THEN [mail EXCEPT ![msg.uid] = NoMail] ELSE mail
            /\ processed_emails' = IF r.add THEN processed_emails \cup {FP(msg)}
                                   ELSE processed_emails
    /\ fetched' = Tail(fetched)
    /\ UNCHANGED <<callVars, cycles_since_clear, connection_start_time, pc, cfgVars,
                   retry_count, wait_time, mailbox, check_count,
                   current_time, exit_code, now, obsVars>>

\* run_email_loop after check_emails returned: count the cycle, clear the set
\* every ClearEvery cycles, sleep check_interval
CycleDone ==
    /\ IF check_count + 1 >= ClearEvery
       THEN /\ processed_emails' = {}
            /\ check_count' = 0
       ELSE /\ processed_emails' = processed_emails
            /\ check_count' = check_count + 1
    /\ cycles_since_clear' =
          IF cycles_since_clear = NotObserved THEN NotObserved
          ELSE IF check_count + 1 >= ClearEvery THEN 0
          ELSE cycles_since_clear + 1
    /\ session_polled' = TRUE
    /\ failed_streak' = 0
    /\ fetched' = <<>>
    /\ current_time' = 0
    /\ ops' = <<>>
    /\ pc' = "Polling"

\* the for loop of check_emails is exhausted
CycleEnd ==
    /\ pc = "Processing"
    /\ fetched = <<>>
    /\ CycleDone
    /\ UNCHANGED <<callVars, connection_start_time, cfgVars, retry_count, wait_time, mailbox,
                   exit_code, serverVars,
                   polls_left>>

\* the non-critical failure taken for a completed session: the counter is reset
FetchFailOther_ResetsCounter ==
    /\ \/ pc = "Polling" /\ polls_left > 0 /\ polls_left' = polls_left - 1
       \/ pc = "Processing" /\ polls_left' = polls_left
    /\ mailbox
    /\ CycleDone
    /\ retry_count' = 0
    /\ UNCHANGED <<callVars, connection_start_time, cfgVars, wait_time, mailbox,
                   exit_code, serverVars>>

\* the fetch raises with a text holding none of "connection", "timeout", "ssl",
\* at its start or between two messages: check_emails logs a warning and returns
FetchFailOther ==
    /\ \/ pc = "Polling" /\ polls_left > 0 /\ polls_left' = polls_left - 1
       \/ pc = "Processing" /\ polls_left' = polls_left
    /\ mailbox
    /\ CycleDone
    /\ UNCHANGED <<callVars, connection_start_time, cfgVars, retry_count, wait_time, mailbox,
                   exit_code, serverVars>>

\* the poll failure handled by the except branch of _run_main_loop, as a failed
\* attempt
FetchFailCritical_Counted ==
    /\ \/ pc = "Polling" /\ polls_left > 0 /\ polls_left' = polls_left - 1
       \/ pc = "Processing" /\ polls_left' = polls_left
    /\ mailbox
    /\ mailbox' = FALSE
    /\ FailedAttempt
    /\ failed_streak' = Min(failed_streak + 1, max_retry_attempts)
    /\ fetched' = <<>>
    /\ current_time' = 0
    /\ ops' = <<>>
    /\ connection_start_time' = NoTime
    /\ UNCHANGED <<callVars, cycles_since_clear, cfgVars, processed_emails, check_count,
                   serverVars, session_polled>>

\* _run_email_loop without its finally: the session is left as it is when
\* run_email_loop returns
FetchFailCritical_NoDisconnect ==
    /\ \/ pc = "Polling" /\ polls_left > 0 /\ polls_left' = polls_left - 1
       \/ pc = "Processing" /\ polls_left' = polls_left
    /\ mailbox
    /\ mailbox' = mailbox
    /\ retry_count' = 0
    /\ failed_streak' = Min(failed_streak + 1, max_retry_attempts)
    /\ fetched' = <<>>
    /\ current_time' = 0
    /\ ops' = <<>>
    /\ pc' = LoopTest(0)
    /\ exit_code' = IF LoopTest(0) = "Stopped" THEN 0 ELSE exit_code
    /\ connection_start_time' = connection_start_time
    /\ UNCHANGED <<callVars, cycles_since_clear, cfgVars, wait_time, processed_emails,
                   check_count, serverVars,
                   session_polled>>

\* the fetch raises with a text holding "connection", "timeout" or "ssl":
\* check_emails raises EmailProcessingError, run_email_loop logs, sleeps and
\* breaks, _run_email_loop disconnects, _run_main_loop resets the counter and
\* tests its loop condition
FetchFailCritical ==
    /\ \/ pc = "Polling" /\ polls_left > 0 /\ polls_left' = polls_left - 1
       \/ pc = "Processing" /\ polls_left' = polls_left
    /\ mailbox
    /\ \E logoutOut \in LogoutOutcomes : mailbox' = Disconnect(mailbox, logoutOut).mailbox
    /\ retry_count' = 0
    /\ failed_streak' = Min(failed_streak + 1, max_retry_attempts)
    /\ fetched' = <<>>
    /\ current_time' = 0
    /\ ops' = <<>>
    /\ pc' = LoopTest(0)
    /\ exit_code' = IF LoopTest(0) = "Stopped" THEN 0 ELSE exit_code
    /\ connection_start_time' = NoTime
    /\ UNCHANGED <<callVars, cycles_since_clear, cfgVars, wait_time, processed_emails,
                   check_count, serverVars,
                   session_polled>>

\* the interrupt with no disconnect on the way out
Interrupt_NoCleanup ==
    /\ pc \in {"Connecting", "Polling", "Processing", "Backoff"}
    /\ pc' = "Stopped"
    /\ exit_code' = 0
    /\ fetched' = <<>>
    /\ current_time' = 0
    /\ ops' = <<>>
    /\ UNCHANGED <<callVars, cycles_since_clear, connection_start_time, mailbox, cfgVars,
                   retry_count, wait_time,
                   processed_emails, check_count, serverVars, obsVars>>

\* KeyboardInterrupt while the loop runs: the finally of _run_email_loop
\* disconnects, start logs the interrupt and runs _cleanup
Interrupt ==
    /\ pc \in {"Connecting", "Polling", "Processing", "Backoff"}
    /\ \E logoutOut \in LogoutOutcomes : mailbox' = Disconnect(mailbox, logoutOut).mailbox
    /\ pc' = "Stopped"
    /\ exit_code' = 0
    /\ fetched' = <<>>
    /\ current_time' = 0
    /\ ops' = <<>>
    /\ connection_start_time' = NoTime
    /\ UNCHANGED <<callVars, cycles_since_clear, cfgVars, retry_count, wait_time,
                   processed_emails, check_count,
                   serverVars, obsVars>>

Next ==
    \/ Start
    \/ ConnectOk
    \/ ConnectFail
    \/ BackoffDone
    \/ Fetch
    \/ ProcessOne
    \/ CycleEnd
    \/ FetchFailOther
    \/ FetchFailCritical
    \/ Interrupt
    \/ Deliver
    \/ MarkSeen
    \/ Expunge
    \/ Tick

\* every application configuration the loader can produce, one uid
Init ==
    InitWith(CheckIntervals, MinutesToWait, MaxRetryAttempts, {DeployedEmailConfig},
             {DeployedTelegramConfig}, 1, RetryPolls)

Spec == Init /\ [][Next]_vars

\* the default configuration with a threshold of one tick, one uid, a longer run
MailInit ==
    InitWith({DefaultCheckInterval}, {1}, {DefaultMaxRetryAttempts}, {DeployedEmailConfig},
             {DeployedTelegramConfig}, 1, MaxPolls)

MailSpec == MailInit /\ [][Next]_vars

\* the default intervals, two attempts, two uids, one fetch
BatchInit ==
    InitWith({DefaultCheckInterval}, {1}, {2}, {DeployedEmailConfig},
             {DeployedTelegramConfig}, 2, 1)

BatchSpec == BatchInit /\ [][Next]_vars

(* ===================== the legacy script, main.py ====================== *)
\* main.py keeps its settings in module globals; its clock is read in seconds.
\* main.py:15
CHECK_INTERVAL == 1
\* main.py:16
MINUTES_TO_WAIT == 900
\* main.py:17
MAX_RETRY_ATTEMPTS == 3
\* main.py:18
CONNECTION_REFRESH_INTERVAL == 3600

\* the step of the clock in a run of main.py: half the refresh interval
ClockStep == CONNECTION_REFRESH_INTERVAL \div 2

\* main(): retry_count = 0 before the loop; no session, connection_start_time = None
LegacyInit ==
    InitWith({DefaultCheckInterval}, {1}, {DefaultMaxRetryAttempts}, {DeployedEmailConfig},
             {DeployedTelegramConfig}, 1, MaxPolls)

\* Time passes.
LegacyTick ==
    /\ pc = "Polling"
    /\ polls_left > 0
    /\ now < MaxTime * ClockStep
    /\ now' = now + ClockStep
    /\ UNCHANGED <<callVars, cycles_since_clear, connection_start_time, pc, cfgVars,
                   retry_count, wait_time, mailbox,
                   handlerVars, exit_code, folder, mail, polls_left, session_polled,
                   failed_streak>>

\* main(): the pre-startup test suite, then the first test of the loop condition
LegacyStart ==
    /\ pc = "Start"
    /\ \E test_exit_code \in {0, 1} :
        IF test_exit_code # 0
        THEN pc' = "TestsFailed" /\ exit_code' = 1
        ELSE pc' = "Connecting" /\ exit_code' = exit_code
    /\ UNCHANGED <<callVars, cycles_since_clear, connection_start_time, cfgVars, retry_count,
                   wait_time, mailbox,
                   handlerVars, serverVars, obsVars>>

\* establish_connection_and_check_emails: login succeeds, connection_start_time
\* is taken
LegacyConnectOk ==
    /\ pc = "Connecting"
    /\ mailbox' = TRUE
    /\ connection_start_time' = <<now>>
    /\ session_polled' = FALSE
    /\ pc' = "Polling"
    /\ UNCHANGED <<callVars, cycles_since_clear, cfgVars, retry_count, wait_time,
                   handlerVars, exit_code, serverVars,
                   polls_left, failed_streak>>

\* the except branch of main(): count the failure, then sys.exit(0) or back off
LegacyFailedAttempt ==
    LET count == retry_count + 1
    IN  /\ retry_count' = count
        /\ IF count >= MAX_RETRY_ATTEMPTS
           THEN /\ pc' = "ShutDown"
                /\ exit_code' = 0
                /\ wait_time' = wait_time
           ELSE /\ pc' = "Backoff"
                /\ exit_code' = exit_code
                /\ wait_time' = CHECK_INTERVAL * Pow2(count - 1)

\* the while condition of main(); when it is false main() logs and returns
LegacyLoopTest(count) == IF count < MAX_RETRY_ATTEMPTS THEN "Connecting" ELSE "Stopped"

\* establish_connection_and_check_emails: login raises, the exception reaches main()
LegacyConnectFail ==
    /\ pc = "Connecting"
    /\ mailbox' = FALSE
    /\ LegacyFailedAttempt
    /\ failed_streak' = Min(failed_streak + 1, MAX_RETRY_ATTEMPTS)
    /\ UNCHANGED <<callVars, cycles_since_clear, connection_start_time, cfgVars, handlerVars,
                   serverVars, polls_left,
                   session_polled>>

\* asyncio.sleep(wait_time) returns; the loop condition is tested again
LegacyBackoffDone ==
    /\ pc = "Backoff"
    /\ pc' = LegacyLoopTest(retry_count)
    /\ exit_code' = IF LegacyLoopTest(retry_count) = "Stopped" THEN 0 ELSE exit_code
    /\ UNCHANGED <<callVars, cycles_since_clear, connection_start_time, cfgVars, retry_count,
                   wait_time, mailbox,
                   handlerVars, serverVars, obsVars>>

\* the refresh test written with > for >=
RefreshNeeded_Strict ==
    /\ connection_start_time # NoTime
    /\ now - connection_start_time[1] > CONNECTION_REFRESH_INTERVAL

\* the test at the head of the inner loop of establish_connection_and_check_emails
RefreshNeeded ==
    /\ connection_start_time # NoTime
    /\ now - connection_start_time[1] >= CONNECTION_REFRESH_INTERVAL

\* the refresh: the inner loop breaks, finally logs the mailbox out, the function
\* returns normally and main() tests its loop condition
LegacyRefresh ==
    /\ pc = "Polling"
    /\ mailbox
    /\ RefreshNeeded
    /\ mailbox' = FALSE
    /\ pc' = LegacyLoopTest(retry_count)
    /\ exit_code' = IF LegacyLoopTest(retry_count) = "Stopped" THEN 0 ELSE exit_code
    /\ UNCHANGED <<callVars, cycles_since_clear, connection_start_time, cfgVars, retry_count,
                   wait_time, handlerVars,
                   serverVars, obsVars>>

\* check_emails(mailbox): current_time is taken and the fetch is issued
LegacyFetch ==
    /\ pc = "Polling"
    /\ mailbox
    /\ ~RefreshNeeded
    /\ polls_left > 0
    /\ polls_left' = polls_left - 1
    /\ current_time' = now
    /\ fetched' = FetchFrom(Cardinality(UIDs))
    /\ ops' = <<>>
    /\ pc' = "Processing"
    /\ UNCHANGED <<callVars, cycles_since_clear, connection_start_time, cfgVars, retry_count,
                   wait_time, mailbox,
                   processed_emails, check_count, exit_code, serverVars, session_polled,
                   failed_streak>>

\* the handling of one message by main.py is a run of statements that stops at
\* the first one that raises: acc holds the operations issued so far, whether a
\* move was accepted, and whether a statement raised
LegacyDo(acc, o) == IF acc.raised THEN acc ELSE [acc EXCEPT !.ops = acc.ops \o o]

\* mailbox.move(msg.uid, GELESEN_FOLDER): it returns or it raises
LegacyMove(acc, moveOut) ==
    IF acc.raised THEN acc
    ELSE IF moveOut = "ok" THEN [acc EXCEPT !.ops = acc.ops \o <<"move">>, !.moved = TRUE]
    ELSE [acc EXCEPT !.ops = acc.ops \o <<"move", "raise">>, !.raised = TRUE]

\* click_verification_code_link / click_confirmation_link: they return a truthy
\* value or False, or a wait on the page raises
LegacyBrowser(acc, browserOut) ==
    IF acc.raised THEN acc
    ELSE IF browserOut = "scraping_error"
    THEN [acc EXCEPT !.ops = acc.ops \o <<"browser", "raise">>, !.raised = TRUE]
    ELSE [acc EXCEPT !.ops = acc.ops \o <<"browser">>]

\* main.py check_emails, the body of the for loop for one message: the age rule
\* with continue, then the three independent if statements; an exception is
\* caught by the except of the loop body, which logs a warning
LegacyProcessEmail(msg, ct, moveOut, moveOut2, browserOut) ==
    LET html == msg.body
        start == [ops |-> <<>>, moved |-> FALSE, raised |-> FALSE]
        old == /\ msg.date # NoDate
               /\ ct - msg.date[1] > MINUTES_TO_WAIT
               /\ msg.seen
        aged == LegacyDo(LegacyMove(start, moveOut), <<"log_info", "status_SUCCESS">>)
        next(acc) == IF acc.moved THEN moveOut2 ELSE moveOut
        a1 == IF Contains(html, "accountaccess")
              THEN LegacyMove(LegacyDo(start, <<"log_info", "extract_code", "log_info",
                                                "log_info">>), moveOut)
              ELSE start
        b2 == LegacyBrowser(LegacyDo(a1, <<"log_info">>), browserOut)
        a2 == IF a1.raised \/ ~Contains(html, "travel/verify") THEN a1
              ELSE IF browserOut = "success"
              THEN LegacyDo(LegacyMove(b2, next(b2)), <<"log_info", "status_SUCCESS">>)
              ELSE LegacyDo(b2, <<"log_info">>)
        b3 == LegacyBrowser(LegacyDo(a2, <<"log_info">>), browserOut)
        a3 == IF a2.raised \/ ~Contains(html, "update-primary-location") THEN a2
              ELSE IF browserOut = "success"
              THEN LegacyDo(LegacyMove(b3, next(b3)), <<"log_info", "status_SUCCESS">>)
              ELSE LegacyDo(b3, <<"log_warning">>)
        end == IF old THEN aged ELSE a3
    IN  IF end.raised THEN [end EXCEPT !.ops = end.ops \o <<"log_warning">>] ELSE end

\* msg.html or msg.text raises before anything was done for the message
LegacyProcessEmailRaises ==
    [ops |-> <<"raise", "log_warning">>, moved |-> FALSE, raised |-> TRUE]

\* one pass of the for loop of check_emails(mailbox)
LegacyProcessOne ==
    /\ pc = "Processing"
    /\ fetched # <<>>
    /\ \E moveOut \in ServerMoveOutcomes(folder[Head(fetched).uid] = "inbox"),
          moveOut2 \in MoveOutcomes, browserOut \in BrowserOutcomes, raises \in BOOLEAN :
        LET msg == Head(fetched)
            r == IF raises THEN LegacyProcessEmailRaises
                 ELSE LegacyProcessEmail(msg, current_time, moveOut, moveOut2, browserOut)
            moved == r.moved /\ folder[msg.uid] = "inbox"
        IN  /\ ops' = r.ops
            /\ folder' = IF moved THEN [folder EXCEPT ![msg.uid] = "archive"] ELSE folder
            /\ mail' = IF moved THEN [mail EXCEPT ![msg.uid] = NoMail] ELSE mail
    /\ fetched' = Tail(fetched)
    /\ UNCHANGED <<callVars, cycles_since_clear, connection_start_time, pc, cfgVars,
                   retry_count, wait_time, mailbox,
                   processed_emails, check_count, current_time, exit_code, now, obsVars>>

\* check_emails returned: the inner loop sleeps CHECK_INTERVAL and goes round
LegacyCycleDone ==
    /\ session_polled' = TRUE
    /\ failed_streak' = 0
    /\ fetched' = <<>>
    /\ current_time' = 0
    /\ ops' = <<>>
    /\ pc' = "Polling"

\* the for loop of check_emails(mailbox) is exhausted
LegacyCycleEnd ==
    /\ pc = "Processing"
    /\ fetched = <<>>
    /\ LegacyCycleDone
    /\ UNCHANGED <<callVars, cycles_since_clear, connection_start_time, cfgVars, retry_count,
                   wait_time, mailbox,
                   processed_emails, check_count, exit_code, serverVars, polls_left>>

\* the fetch raises with a text holding none of "connection", "timeout", "ssl":
\* check_emails logs and returns
LegacyFetchFailOther ==
    /\ \/ pc = "Polling" /\ ~RefreshNeeded /\ polls_left > 0 /\ polls_left' = polls_left - 1
       \/ pc = "Processing" /\ polls_left' = polls_left
    /\ mailbox
    /\ LegacyCycleDone
    /\ UNCHANGED <<callVars, cycles_since_clear, connection_start_time, cfgVars, retry_count,
                   wait_time, mailbox,
                   processed_emails, check_count, exit_code, serverVars>>

\* main() resetting retry_count when establish_connection_and_check_emails
\* returns after a poll failure
LegacyFetchFailCritical_ResetsCounter ==
    /\ \/ pc = "Polling" /\ ~RefreshNeeded /\ polls_left > 0 /\ polls_left' = polls_left - 1
       \/ pc = "Processing" /\ polls_left' = polls_left
    /\ mailbox
    /\ mailbox' = FALSE
    /\ failed_streak' = Min(failed_streak + 1, MAX_RETRY_ATTEMPTS)
    /\ fetched' = <<>>
    /\ current_time' = 0
    /\ ops' = <<>>
    /\ retry_count' = 0
    /\ pc' = LegacyLoopTest(0)
    /\ exit_code' = IF LegacyLoopTest(0) = "Stopped" THEN 0 ELSE exit_code
    /\ UNCHANGED <<callVars, cycles_since_clear, connection_start_time, cfgVars,
                   wait_time,
                   processed_emails, check_count, serverVars, session_polled>>

\* the fetch raises with a text holding "connection", "timeout" or "ssl":
\* check_emails re-raises, the inner loop logs, sleeps and breaks, finally logs
\* the mailbox out, and main() tests its loop condition; retry_count is untouched
LegacyFetchFailCritical ==
    /\ \/ pc = "Polling" /\ ~RefreshNeeded /\ polls_left > 0 /\ polls_left' = polls_left - 1
       \/ pc = "Processing" /\ polls_left' = polls_left
    /\ mailbox
    /\ mailbox' = FALSE
    /\ failed_streak' = Min(failed_streak + 1, MAX_RETRY_ATTEMPTS)
    /\ fetched' = <<>>
    /\ current_time' = 0
    /\ ops' = <<>>
    /\ pc' = LegacyLoopTest(retry_count)
    /\ exit_code' = IF LegacyLoopTest(retry_count) = "Stopped" THEN 0 ELSE exit_code
    /\ UNCHANGED <<callVars, cycles_since_clear, connection_start_time, cfgVars, retry_count,
                   wait_time,
                   processed_emails, check_count, serverVars, session_polled>>

LegacyNext ==
    \/ LegacyStart
    \/ LegacyConnectOk
    \/ LegacyConnectFail
    \/ LegacyBackoffDone
    \/ LegacyRefresh
    \/ LegacyFetch
    \/ LegacyProcessOne
    \/ LegacyCycleEnd
    \/ LegacyFetchFailOther
    \/ LegacyFetchFailCritical
    \/ Deliver
    \/ MarkSeen
    \/ Expunge
    \/ LegacyTick

LegacySpec == LegacyInit /\ [][LegacyNext]_vars

(* ======================= the retry state machine ======================= *)
\* a step in which a session attempt fails: connect raises, or a poll cycle of
\* the session raises and the session is torn down
ConnectFailedStep == pc = "Connecting" /\ pc' \in {"Backoff", "ShutDown"}
PollFailedStep == pc \in {"Polling", "Processing"} /\ pc' = "Connecting"
SessionFailedStep == ConnectFailedStep \/ PollFailedStep

\* C1: retries are bounded.  Once max_retry_attempts session attempts have failed
\* with no completed poll cycle between them, the process is in the terminal
\* shutdown state.
C1_RetriesBounded ==
    (ValidAppConfig /\ failed_streak >= max_retry_attempts) => pc = "ShutDown"

\* C2: every step changes _retry_count to _retry_count + 1, to 0, or not at all,
\* and every failed session attempt increments it by exactly 1.
C2_OneIncrementPerFailedSession ==
    [][ /\ retry_count' \in {retry_count + 1, 0, retry_count}
        /\ SessionFailedStep => retry_count' = retry_count + 1 ]_vars

\* C3: in a session in which a check_emails cycle has completed without raising,
\* _retry_count is 0.
C3_ResetOnCompletedCycle ==
    (mailbox /\ session_polled) => retry_count = 0

\* C4: the terminal ShutDown state is entered exactly when _retry_count reaches
\* max_retry_attempts: the process is in ShutDown if and only if the counter
\* equals max_retry_attempts (so the step that makes them equal is the step that
\* enters ShutDown, and ShutDown is entered by no other step), the exit status is
\* then 0, and no session is attempted or live with the counter at the maximum.
C4_ShutDownExactlyAtMax ==
    ValidAppConfig =>
        /\ pc = "ShutDown" <=> retry_count = max_retry_attempts
        /\ pc = "ShutDown" => exit_code = 0
        /\ retry_count = max_retry_attempts => ~mailbox /\ pc \notin {"Connecting", "Backoff"}

C4_Witness ==
    /\ pc = "ShutDown"
    /\ retry_count = DefaultMaxRetryAttempts
    /\ max_retry_attempts = DefaultMaxRetryAttempts
    /\ exit_code = 0

\* C5: in every state of a run on a validated configuration,
\* 0 <= _retry_count <= max_retry_attempts.
C5_RetryCountInRange ==
    ValidAppConfig => 0 <= retry_count /\ retry_count <= max_retry_attempts

C5_Witness ==
    /\ ValidAppConfig
    /\ retry_count = max_retry_attempts
    /\ max_retry_attempts > 1

\* C6 as stated: after every failed attempt that leaves the counter at k, with
\* 1 <= k <= 3, a wait of check_interval * 2^(k-1) is performed.
C6_WaitAfterEveryFailedAttempt ==
    [][ (ValidAppConfig /\ retry_count' = retry_count + 1 /\ retry_count' \in 1..3) =>
            /\ pc' = "Backoff"
            /\ wait_time' = check_interval * Pow2(retry_count' - 1) ]_vars

\* C6 as amended: a failed attempt that leaves the counter at k < max_retry_attempts
\* is followed by a wait of check_interval * 2^(k-1): the first wait of a streak is
\* check_interval and each later one is twice the one before it, hence larger
\* (base 3: 3, 6, 12); the failed attempt that brings the counter to
\* max_retry_attempts is followed by no wait.
C6_BackoffWait ==
    [][ (ValidAppConfig /\ retry_count' = retry_count + 1) =>
            IF retry_count' < max_retry_attempts
            THEN /\ pc' = "Backoff"
                 /\ retry_count' = 1 => wait_time' = check_interval
                 /\ retry_count' > 1 => wait_time' = 2 * wait_time /\ wait_time' > wait_time
                 /\ check_interval = 3 =>
                        wait_time' = CASE retry_count' = 1 -> 3
                                       [] retry_count' = 2 -> 6
                                       [] retry_count' = 3 -> 12
                                       [] OTHER -> wait_time'
            ELSE /\ pc' = "ShutDown"
                 /\ wait_time' = wait_time ]_vars

C6_Witness ==
    /\ pc = "Backoff"
    /\ check_interval = 3
    /\ retry_count = 3
    /\ wait_time = 12

(* ========================= handling of messages ======================== *)
\* a step that runs _process_email on the next fetched message
ProcessOneStep ==
    /\ pc = "Processing"
    /\ pc' = "Processing"
    /\ fetched # <<>>
    /\ fetched' = Tail(fetched)

\* C7: whenever a message's fingerprint is in _processed_emails, the message has
\* been moved: no message of the active folder has its fingerprint in the set.
C7_FingerprintOnlyAfterMove ==
    \A u \in UIDs : folder[u] = "inbox" => FP(mail[u]) \notin processed_emails

\* C8: a fetched message whose fingerprint is in _processed_emails is skipped:
\* the only operation is the debug log, no age check, no classification, no URL
\* extraction, no browser session and no move are issued, and the server and the
\* set are left as they were.
C8_ProcessedIsSkipped ==
    [][ (ProcessOneStep /\ FP(Head(fetched)) \in processed_emails) =>
            /\ ops' = <<"log_debug">>
            /\ folder' = folder
            /\ mail' = mail
            /\ processed_emails' = processed_emails ]_vars

C8_Witness ==
    /\ pc = "Processing"
    /\ ops = <<"log_debug">>
    /\ \E u \in UIDs : /\ folder[u] = "inbox"
                       /\ mail[u].seen
                       /\ FP(mail[u]) \in processed_emails

\* the message is older than the threshold at the time of the poll and is read
OldAndRead(msg) ==
    /\ msg.date # NoDate
    /\ current_time - msg.date[1] > minutes_to_wait
    /\ msg.seen

\* C9: for every fetched message that is older than the threshold and read, and
\* whose handling does not raise, a move to the archive folder is issued and no
\* classification is attempted.
C9_OldReadIsArchived ==
    [][ (ProcessOneStep /\ OldAndRead(Head(fetched))
         /\ ~\E i \in DOMAIN ops' : ops'[i] = "raise") =>
            /\ \E i \in DOMAIN ops' : ops'[i] = "move"
            /\ \A i \in DOMAIN ops' : ops'[i] \notin {"classify", "extract_url", "browser"}
       ]_vars

\* the body holds none of the three markers
NoMarker(html) == \A i \in DOMAIN html : html[i] \in {Text, Quote, TdCode, TdLong}

Untouched ==
    /\ \A i \in DOMAIN ops' : ops'[i] \notin {"move", "add"}
    /\ folder' = folder
    /\ processed_emails' = processed_emails

\* C10 as stated: a message without any marker is left in place, no move is
\* issued for it and its fingerprint is not added.
C10_NoMarkerUntouched ==
    [][ (ProcessOneStep /\ NoMarker(Head(fetched).body)) => Untouched ]_vars

\* C10 as amended: a message without any marker that the age-and-read rule does
\* not match is left in place, no move is issued for it and its fingerprint is
\* not added; for a message without marker that is older than the threshold and
\* read the move of the age rule is issued, unless its handling raised.
C10_NoMarkerNotOldUntouched ==
    [][ (ProcessOneStep /\ NoMarker(Head(fetched).body)) =>
            IF OldAndRead(Head(fetched)) /\ FP(Head(fetched)) \notin processed_emails
            THEN \/ \E i \in DOMAIN ops' : ops'[i] = "move"
                 \/ \E i \in DOMAIN ops' : ops'[i] = "raise"
            ELSE Untouched ]_vars

C10_Witness ==
    /\ pc = "Processing"
    /\ ops = <<"age_check", "classify">>
    /\ \E u \in UIDs : /\ folder[u] = "inbox"
                       /\ NoMarker(mail[u].body)
                       /\ FP(mail[u]) \notin processed_emails

(* ===================== the browser-backed branches ===================== *)
\* the handling of the message issued the operation op
Issued(op) == \E i \in DOMAIN ops' : ops'[i] = op

\* a step in which _process_email hands the next message to the handler of the
\* branch b, which finds its URL and calls the browser
BrowserBranchStep(b) ==
    /\ ProcessOneStep
    /\ Branch(Head(fetched).body) = b
    /\ Issued("browser")

\* the handler logged its warning: the browser returned no code / did not confirm
BrowserGaveNothing == Issued("log_warning")

\* C11: a travel-verification message is moved to the archive folder only if the
\* browser returned a scraped code; when no code was scraped no move is issued,
\* the message stays in the active folder and its fingerprint is not added, so
\* that the next poll processes it again.
C11_TravelArchivedOnlyWithCode ==
    [][ (BrowserBranchStep("travel/verify") /\ BrowserGaveNothing) =>
            /\ ~Issued("move")
            /\ folder' = folder
            /\ FP(Head(fetched)) \notin processed_emails' ]_vars

\* C12: a location-confirmation message is moved to the archive folder when the
\* confirmation click succeeded; when it did not succeed a warning is emitted, no
\* move is issued and the message stays in the active folder.
C12_LocationArchivedOnlyOnSuccess ==
    [][ BrowserBranchStep("update-primary-location") =>
            IF BrowserGaveNothing
            THEN ~Issued("move") /\ folder' = folder
            ELSE Issued("move") ]_vars

(* ========================== session refresh ============================ *)
\* seconds since the session was established
SessionAge == now - connection_start_time[1]

\* C13: in main.py, when the age of the session has reached
\* CONNECTION_REFRESH_INTERVAL at the start of a cycle, the step the script takes
\* is the refresh: no fetch is issued, the session is logged out, retry_count is
\* not changed and main() is about to establish a new session; and every fetch
\* is issued on a live session younger than the interval, so a new session is
\* established before the next fetch.
C13_LegacyVoluntaryRefresh ==
    [][ /\ (pc = "Polling" /\ mailbox /\ SessionAge >= CONNECTION_REFRESH_INTERVAL
            /\ pc' # pc) =>
                /\ pc' = "Connecting"
                /\ ~mailbox'
                /\ retry_count' = retry_count
                /\ polls_left' = polls_left
                /\ fetched' = <<>>
        /\ (pc = "Polling" /\ pc' = "Processing") =>
                /\ mailbox
                /\ SessionAge < CONNECTION_REFRESH_INTERVAL
        /\ (pc = "Connecting" /\ pc' = "Polling") =>
                /\ mailbox'
                /\ connection_start_time' = <<now>> ]_vars

C13_Witness ==
    /\ pc = "Connecting"
    /\ ~mailbox
    /\ session_polled
    /\ connection_start_time # NoTime
    /\ now - connection_start_time[1] >= CONNECTION_REFRESH_INTERVAL
    /\ retry_count = 0
    /\ polls_left > 0

\* The modular application has no refresh interval in its configuration; the
\* claim is stated for the largest threshold the clock of a run can reach, which
\* is the weakest form of it.
RefreshThreshold == MaxTime

\* C14: in the modular loop no check_emails cycle is started on a session whose
\* age has reached the refresh threshold.
C14_SessionYoungerThanThreshold ==
    [][ (pc = "Polling" /\ pc' = "Processing") => SessionAge < RefreshThreshold ]_vars

(* ============================== the move ================================ *)
\* the operations of _move_email_to_gelesen within the handling of the message:
\* those from the move request on
MoveOps ==
    LET at == CHOOSE i \in DOMAIN ops' : ops'[i] = "move"
    IN  SubSeq(ops', at, Len(ops'))

InMoveOps(op) == \E i \in DOMAIN MoveOps : MoveOps[i] = op

SessionLostStep == mailbox /\ ~mailbox' /\ pc' # "Stopped"

\* C16: when check_emails raises EmailProcessingError (the counter is below
\* max_retry_attempts then, as in every live session), the session is logged out
\* and the application is about to call connect() again: the process has not
\* terminated and has no exit status, and the counter is still below the maximum.
C16_PollFailureEndsSessionOnly ==
    [][ (ValidAppConfig /\ SessionLostStep) =>
            /\ retry_count < max_retry_attempts
            /\ pc' = "Connecting"
            /\ exit_code' = -1
            /\ retry_count' < max_retry_attempts ]_vars

C16_Witness ==
    /\ pc = "Connecting"
    /\ ~mailbox
    /\ failed_streak >= 1
    /\ retry_count = 0
    /\ exit_code = -1

(* ========================= errors of one message ======================= *)
\* the handling of the message at the head of the batch raised
RaisedOnMessage ==
    /\ pc = "Processing"
    /\ fetched # <<>>
    /\ \E i \in DOMAIN ops' : ops'[i] = "raise"
    /\ fetched' # fetched \/ pc' # pc

\* C17: when the handling of one message of a check_emails cycle raises, the
\* cycle goes on: the exception is logged as a warning, the messages fetched
\* after it are still to be handled in this cycle, nothing is raised out of
\* check_emails (the loop stays in the cycle, the counter is untouched) and the
\* session stays connected.
C17_MessageErrorKeepsBatch ==
    [][ RaisedOnMessage =>
            /\ ops'[Len(ops')] = "log_warning"
            /\ pc' = "Processing"
            /\ fetched' = Tail(fetched)
            /\ mailbox /\ mailbox'
            /\ retry_count' = retry_count
            /\ exit_code' = exit_code ]_vars

\* a message raised and a later message of the same fetch is still to be handled
C17_Witness ==
    /\ pc = "Processing"
    /\ mailbox
    /\ ops = <<"raise", "log_warning">>
    /\ Len(fetched) = 1
    /\ \E u \in UIDs : folder[u] = "inbox" /\ u # Head(fetched).uid

\* C18: the mailbox session is released on every exit path: a session is live
\* only while the loop polls it; none is live when connect() is about to be
\* called, during a backoff sleep, or in a terminal state (shutdown after the
\* last attempt, interrupt, rejected configuration), and the application holds
\* no session before it has started.
C18_SessionReleased ==
    /\ mailbox => pc \in {"Polling", "Processing"}
    /\ pc \in {"Start", "Connecting", "Backoff", "ShutDown", "Stopped", "ConfigError"}
          => ~mailbox
    /\ exit_code # -1 => ~mailbox

\* a session was lost to a poll failure, the reconnect failed, and the loop is
\* in its backoff sleep with no session
C18_Witness ==
    /\ pc = "Backoff"
    /\ retry_count = 1
    /\ failed_streak >= 2
    /\ ~mailbox

(* ============================== exit status ============================ *)
\* C19: the process exits with status 0 on every shutdown that follows the start
\* of the main loop (the last failed attempt, the interrupt), and with a
\* non-zero status only when validate_config rejected the configuration; the
\* process has an exit status exactly in its terminal states.
C19_ExitCodes ==
    /\ pc \in {"ShutDown", "Stopped"} => exit_code = 0
    /\ exit_code \notin {-1, 0} => pc = "ConfigError" /\ ValidateConfig # "ok"
    /\ pc = "ConfigError" => exit_code = 1
    /\ exit_code # -1 <=> pc \in {"ShutDown", "Stopped", "ConfigError"}

\* a session handled a message and was lost, every reconnect failed, and the
\* process left after the last attempt
C19_Witness ==
    /\ pc = "ShutDown"
    /\ processed_emails # {}
    /\ retry_count >= max_retry_attempts
    /\ exit_code = 0

(* ======================= configuration validation ===================== *)
\* the startup of the application alone, over every configuration the loader
\* can hand to validate_config
ConfigInit ==
    InitWith(CheckIntervals, MinutesToWait, MaxRetryAttempts, EmailConfigs, TelegramConfigs,
             1, RetryPolls)

ConfigNext == Start

ConfigSpec == ConfigInit /\ [][ConfigNext]_vars

\* the conditions under which a configuration is to be accepted
EmailAccepted ==
    /\ email_config.email # <<>>
    /\ \E i \in 1..Len(email_config.email) : email_config.email[i] = "@"
    /\ email_config.password # <<>>
    /\ email_config.imap_server # <<>>
    /\ email_config.imap_port \in 1..65535

AppAccepted ==
    /\ check_interval > 0
    /\ minutes_to_wait > 0
    /\ max_retry_attempts > 0

TelegramAccepted ==
    telegram_config.enabled =>
        /\ telegram_config.api_url # <<>>
        /\ Head(telegram_config.api_url) \in {"http://", "https://"}
        /\ Len(telegram_config.api_key) >= 10

\* C20: validate_config raises ConfigError exactly for the configurations that
\* violate one of the listed conditions (email non-empty with an "@", password
\* and IMAP host non-empty, port in 1..65535, the three application numbers
\* positive, and with notifications enabled an http:// or https:// URL and a
\* key of at least 10 characters) and accepts every other one; the startup
\* stops with the configuration error in the first case and goes on to connect
\* in the second.
C20_ValidateConfigExact ==
    /\ ValidateConfig = "ok" <=> (EmailAccepted /\ AppAccepted /\ TelegramAccepted)
    /\ pc = "ConfigError" => ~(EmailAccepted /\ AppAccepted /\ TelegramAccepted)
    /\ pc = "Connecting" => (EmailAccepted /\ AppAccepted /\ TelegramAccepted)

\* a configuration whose only fault is a 9-character key with notifications
\* enabled has been rejected at startup
C20_Witness ==
    /\ pc = "ConfigError"
    /\ exit_code = 1
    /\ EmailAccepted
    /\ AppAccepted
    /\ telegram_config.enabled
    /\ Head(telegram_config.api_url) = "https://"
    /\ Len(telegram_config.api_key) = 9

(* ============================== notifications ========================== *)
\* requests.post(api_url, ..., timeout=10) and the reading of its response: a
\* 200 with a JSON body, a 200 whose body is not JSON (response.json() raises),
\* another status, a network error, a timeout
PostOutcomes == {"200", "200_not_json", "non200", "network_error", "timeout"}

\* NotificationHandler._send_telegram_message: the number of POSTs issued, what
\* it returns ("json" or "None"), and whether it raises NotificationError
SendTelegramMessage(enabled, postOut) ==
    IF ~enabled THEN [posts |-> 0, result |-> "None", raised |-> FALSE]
    ELSE IF postOut = "200" THEN [posts |-> 1, result |-> "json", raised |-> FALSE]
    ELSE IF postOut = "non200" THEN [posts |-> 1, result |-> "None", raised |-> FALSE]
    ELSE [posts |-> 1, result |-> "None", raised |-> TRUE]

\* _broadcast_to_telegram without its except clause
BroadcastToTelegram_NoCatch(enabled, postOut) ==
    IF ~enabled THEN [posts |-> 0, records |-> <<>>, raised |-> FALSE]
    ELSE LET response == SendTelegramMessage(enabled, postOut)
         IN  IF response.raised
             THEN [posts |-> response.posts, records |-> <<>>, raised |-> TRUE]
             ELSE IF response.result = "None"
             THEN [posts |-> response.posts, records |-> <<"warning">>, raised |-> FALSE]
             ELSE [posts |-> response.posts, records |-> <<>>, raised |-> FALSE]

\* NotificationHandler._broadcast_to_telegram: the POSTs issued, the records
\* written to the local logger, and whether an exception leaves the method
BroadcastToTelegram(enabled, postOut) ==
    IF ~enabled THEN [posts |-> 0, records |-> <<>>, raised |-> FALSE]
    ELSE LET response == SendTelegramMessage(enabled, postOut)
         IN  IF response.raised
             THEN [posts |-> response.posts, records |-> <<"error">>, raised |-> FALSE]
             ELSE IF response.result = "None"
             THEN [posts |-> response.posts, records |-> <<"warning">>, raised |-> FALSE]
             ELSE [posts |-> response.posts, records |-> <<>>, raised |-> FALSE]

\* NotificationHandler.log_info / log_warning / log_error: self.logger.<level>,
\* then _broadcast_to_telegram
Log(level, enabled, postOut) ==
    LET b == BroadcastToTelegram(enabled, postOut)
    IN  [level |-> level, posts |-> b.posts, records |-> <<level>> \o b.records,
         raised |-> b.raised]

\* the positions of the email loop at which the application logs, with the
\* state of the loop there
NotifyInit ==
    /\ AppInit({DefaultCheckInterval}, {1}, {DefaultMaxRetryAttempts}, {DeployedEmailConfig},
               TelegramConfigs, 1, 0)
    /\ cycles_since_clear = NotObserved
    /\ notification = NoCall
    /\ extraction = NoCall
    /\ scraper = NoCall

\* the application reaches one of the points of the email loop at which it logs
NotifyReach ==
    /\ pc = "Start"
    /\ ValidateConfig = "ok"
    /\ \E at \in {"Connecting", "Polling", "Processing", "Backoff"} :
        /\ pc' = at
        /\ mailbox' = (at \in {"Polling", "Processing"})
        /\ retry_count' \in IF at = "Backoff" THEN 1..(max_retry_attempts - 1)
                                             ELSE 0..(max_retry_attempts - 1)
    /\ processed_emails' \in {{}, {<<1>>}}
    /\ UNCHANGED <<callVars, cycles_since_clear, connection_start_time, cfgVars, wait_time,
                   check_count, current_time, fetched, ops, exit_code, serverVars, obsVars>>

LogCall(level) ==
    /\ pc \in {"Connecting", "Polling", "Processing", "Backoff"}
    /\ \E postOut \in PostOutcomes :
          notification' = Log(level, telegram_config.enabled, postOut)
    /\ UNCHANGED <<extraction, scraper, cycles_since_clear, connection_start_time, pc,
                   cfgVars, retry_count, wait_time, mailbox, handlerVars, exit_code,
                   serverVars, obsVars>>

LogInfo == LogCall("info")
LogWarning == LogCall("warning")
LogError == LogCall("error")

NotifyNext ==
    \/ NotifyReach
    \/ LogInfo
    \/ LogWarning
    \/ LogError

NotifySpec == NotifyInit /\ [][NotifyNext]_vars

\* C21: a log_info, log_warning or log_error call returns normally whatever the
\* POST did (another status, a body that is not JSON, a network error, a
\* timeout), issues at most one POST for its message, none with notifications
\* disabled, and leaves the session, the retry counter, the processed set and
\* the position of the email loop as they were.
C21_NotificationFailuresContained ==
    [][ notification' # notification =>
            /\ ~notification'.raised
            /\ notification'.posts <= 1
            /\ (~telegram_config.enabled => notification'.posts = 0)
            /\ notification'.records[1] = notification'.level
            /\ mailbox' = mailbox
            /\ retry_count' = retry_count
            /\ processed_emails' = processed_emails
            /\ pc' = pc ]_vars

\* a log_info call whose POST failed with an exception has returned, during a
\* live session
C21_Witness ==
    /\ notification # NoCall
    /\ notification.level = "info"
    /\ notification.posts = 1
    /\ notification.records = <<"info", "error">>
    /\ ~notification.raised
    /\ mailbox
    /\ processed_emails # {}

(* ============================ URL extraction =========================== *)
\* the fragments of the bodies handed to _extract_netflix_url
Fragments == {Text, Quote, AccountAccessUrl, TravelVerifyUrl}

RECURSIVE BodiesOfLen(_)
BodiesOfLen(n) ==
    IF n = 0 THEN { <<>> }
    ELSE { Append(b, f) : b \in BodiesOfLen(n - 1), f \in Fragments }

\* every body of up to MaxBodyLen fragments, and None
ExtractorBodies == UNION { BodiesOfLen(n) : n \in 0..MaxBodyLen } \cup {None}

\* the base_url arguments of the three callers
BaseUrls == {AccountAccessUrl, TravelVerifyUrl, UpdateLocationUrl}

Pending == <<"pending">>

ExtractInit ==
    /\ AppInit({DefaultCheckInterval}, {1}, {DefaultMaxRetryAttempts}, {DeployedEmailConfig},
               {DeployedTelegramConfig}, 1, 0)
    /\ cycles_since_clear = NotObserved
    /\ notification = NoCall
    /\ scraper = NoCall
    /\ extraction \in [html : ExtractorBodies, base_url : BaseUrls, result : {Pending}]

\* a caller evaluates _extract_netflix_url(html, base_url)
ExtractCall ==
    /\ extraction.result = Pending
    /\ extraction' = [extraction EXCEPT
                        !.result = ExtractNetflixUrl(extraction.html, extraction.base_url)]
    /\ UNCHANGED <<notification, scraper, cycles_since_clear, connection_start_time, pc,
                   cfgVars, retry_count, wait_time, mailbox, handlerVars, exit_code,
                   serverVars, obsVars>>

ExtractNext == ExtractCall

ExtractSpec == ExtractInit /\ [][ExtractNext]_vars

\* position of the first fragment of html that holds marker, 0 if there is none
FirstMarker(html, marker) ==
    IF \E i \in 1..Len(html) : marker \in Substrings(html[i])
    THEN CHOOSE i \in 1..Len(html) :
            /\ marker \in Substrings(html[i])
            /\ \A j \in 1..(i - 1) : marker \notin Substrings(html[j])
    ELSE 0

\* position of the first double quote of html after position s, 0 if there is none
NextQuote(html, s) ==
    IF \E i \in (s + 1)..Len(html) : html[i] = Quote
    THEN CHOOSE i \in (s + 1)..Len(html) :
            /\ html[i] = Quote
            /\ \A j \in (s + 1)..(i - 1) : html[j] # Quote
    ELSE 0

\* C22: _extract_netflix_url(html, base_url) returns the part of html from the
\* first occurrence of base_url up to, not including, the next double quote
\* after it; it returns None when base_url does not occur or no double quote
\* follows it; and no input, None included, makes it raise.
C22_ExtractNetflixUrl ==
    extraction # NoCall /\ extraction.result # Pending =>
        LET html == extraction.html
            s == FirstMarker(html, extraction.base_url)
            e == NextQuote(html, s)
        IN  /\ extraction.result # Raised
            /\ IF html = None \/ s = 0 \/ e = 0
               THEN extraction.result = None
               ELSE /\ Len(extraction.result) = e - s
                    /\ \A k \in 1..(e - s) : extraction.result[k] = html[s + k - 1]

\* a body with a double quote before the travel link and one after it gave the
\* link alone
C22_Witness ==
    /\ extraction # NoCall
    /\ extraction.html = <<Quote, TravelVerifyUrl, Quote>>
    /\ extraction.base_url = TravelVerifyUrl
    /\ extraction.result = <<TravelVerifyUrl>>

(* ===================== poll failures and the retry count ================ *)
\* C23: a session that ends because a check_emails cycle raised is one failed
\* attempt for _run_main_loop: the step that ends the session increments
\* _retry_count by 1, and unless that exhausts the attempts the loop waits
\* check_interval * 2^(_retry_count - 1) before the next connect.
C23_PollFailureIsFailedAttempt ==
    [][ (ValidAppConfig /\ SessionLostStep) =>
            /\ retry_count' = retry_count + 1
            /\ retry_count' < max_retry_attempts =>
                  /\ pc' = "Backoff"
                  /\ wait_time' = check_interval * Pow2(retry_count' - 1) ]_vars

(* ============================ the periodic clear ======================= *)
\* a long run on an empty active folder: the default configuration, ClearPolls
\* fetches, the completed cycles counted from the start
ClearInit ==
    /\ AppInit({DefaultCheckInterval}, {1}, {DefaultMaxRetryAttempts}, {DeployedEmailConfig},
               {DeployedTelegramConfig}, 0, ClearPolls)
    /\ cycles_since_clear = 0
    /\ notification = NoCall
    /\ extraction = NoCall
    /\ scraper = NoCall

\* a poll cycle fails after its fetch was issued
PollFailsInCycle ==
    /\ pc = "Processing"
    /\ FetchFailCritical

ClearNext ==
    \/ Start
    \/ ConnectOk
    \/ Fetch
    \/ CycleEnd
    \/ PollFailsInCycle

ClearSpec == ClearInit /\ [][ClearNext]_vars

\* C24: _processed_emails is emptied at least once in every window of ClearEvery
\* consecutive completed poll cycles, the cycles counted across reconnections:
\* there are never ClearEvery completed cycles since the set was last emptied.
C24_ClearedEvery100Cycles ==
    cycles_since_clear # NotObserved => cycles_since_clear < ClearEvery

(* ===================== the account-access branch ======================= *)
\* a step in which _process_email handles a message that is neither skipped as a
\* duplicate nor taken by the age rule, and does not raise
HandledStep ==
    /\ ProcessOneStep
    /\ FP(Head(fetched)) \notin processed_emails
    /\ ~ShouldMoveOldEmail(Head(fetched), current_time)
    /\ ~Issued("raise")

\* C25: a message whose body contains "accountaccess", not skipped as a duplicate
\* and not taken by the age rule, has a move to the archive folder requested for
\* it whether or not a 4-digit code was extracted; its fingerprint is not added
\* without that request.
C25_AccountAccessAlwaysMoved ==
    [][ (HandledStep /\ Contains(Head(fetched).body, "accountaccess")) =>
            /\ Issued("move")
            /\ FP(Head(fetched)) \in processed_emails' => Issued("move") ]_vars

(* ========================== order of the rules ========================= *)
\* how many times the handling of the message issued the operation op
Count(op) == Cardinality({i \in DOMAIN ops' : ops'[i] = op})

\* C26: _process_email applies the first rule that matches, in the order age
\* rule, accountaccess, travel/verify, update-primary-location, and runs that
\* branch alone: a message taken by the age rule is not classified, a message
\* with "accountaccess" in its body gets the account-access handling (code read
\* from the body, no browser) whatever other markers it holds, and for no message
\* is more than one URL extracted, more than one browser session opened or more
\* than one move requested in one poll cycle.
C26_FirstMatchWins ==
    [][ (ProcessOneStep /\ FP(Head(fetched)) \notin processed_emails /\ ~Issued("raise")) =>
            LET msg == Head(fetched)
                old == ShouldMoveOldEmail(msg, current_time)
            IN  /\ Count("extract_url") <= 1
                /\ Count("browser") <= 1
                /\ Count("move") <= 1
                /\ old => /\ ~Issued("classify")
                          /\ ~Issued("extract_url")
                          /\ ~Issued("browser")
                /\ (~old /\ Contains(msg.body, "accountaccess")) =>
                          /\ Count("extract_url") = 1
                          /\ ~Issued("browser")
                          /\ Issued("move") => Issued("extract_code")
                /\ (~old /\ ~Contains(msg.body, "accountaccess")
                         /\ (Contains(msg.body, "travel/verify")
                             \/ Contains(msg.body, "update-primary-location"))) =>
                          /\ Count("extract_url") = 1
                          /\ ~Issued("extract_code")
                          /\ Issued("move") => Issued("browser") ]_vars

\* a message holding the travel link and the account-access link was handled by
\* the account-access branch; its move failed, so it is still in the folder
C26_Witness ==
    /\ pc = "Processing"
    /\ \E u \in UIDs :
        /\ folder[u] = "inbox"
        /\ mail[u].body = <<TravelVerifyUrl, Quote, AccountAccessUrl, Quote>>
        /\ FP(mail[u]) \in processed_emails
    /\ \E i \in DOMAIN ops : ops[i] = "extract_code"
    /\ \E i \in DOMAIN ops : ops[i] = "move"
    /\ ~\E i \in DOMAIN ops : ops[i] = "browser"

(* ==================== order of browser, move and add =================== *)
\* the positions at which the handling of the message issued the operation op
At(op) == {i \in DOMAIN ops' : ops'[i] = op}

\* the positions at which _move_email_to_gelesen wrote its status, its last act
MoveReturned == At("status_SUCCESS") \cup At("status_FAILED")

\* C27: in the handling of one message the browser call comes before the move
\* request and the move request, with everything _move_email_to_gelesen does,
\* comes before the add of the fingerprint, which is the last operation; in the
\* travel/verify and update-primary-location branches a move is requested only
\* after a browser call and the log of its outcome; and the set changes only by
\* that add.  (The move of the age rule has no browser call before it.)
C27_BrowserThenMoveThenAdd ==
    [][ ProcessOneStep =>
            /\ \A b \in At("browser"), m \in At("move") : b < m
            /\ \A m \in At("move"), r \in MoveReturned : m < r
            /\ \A r \in MoveReturned \cup At("move") \cup At("browser"), a \in At("add") : r < a
            /\ \A a \in At("add") : a = Len(ops')
            /\ processed_emails' # processed_emails => At("add") # {}
            /\ (/\ ~ShouldMoveOldEmail(Head(fetched), current_time)
                /\ Branch(Head(fetched).body) \in {"travel/verify", "update-primary-location"}
                /\ At("move") # {}) =>
                  \E b \in At("browser") :
                      /\ ops'[b + 1] \in {"log_info", "log_warning", "log_error"}
                      /\ \A m \in At("move") : b + 1 < m ]_vars

\* a travel message was handled: browser call, code logged, move accepted,
\* status written, fingerprint added
C27_Witness ==
    /\ pc = "Processing"
    /\ ops = <<"age_check", "classify", "extract_url", "log_info", "browser", "log_info",
               "move", "log_info", "status_SUCCESS", "add">>
    /\ processed_emails # {}
    /\ \E u \in UIDs : folder[u] = "archive"

(* ============================ the browser ============================== *)
\* one call of process_verification_link or process_confirmation_link, for every
\* course Playwright can take
ScrapeInit ==
    /\ AppInit({DefaultCheckInterval}, {1}, {DefaultMaxRetryAttempts}, {DeployedEmailConfig},
               {DeployedTelegramConfig}, 1, 0)
    /\ cycles_since_clear = NotObserved
    /\ notification = NoCall
    /\ extraction = NoCall
    /\ scraper \in [fn : {"process_verification_link", "process_confirmation_link"},
                    run : ScraperRuns, outcome : {"pending"}, playwright : {FALSE},
                    browser : {FALSE}]

\* the call runs and returns
ScrapeCall ==
    /\ scraper.outcome = "pending"
    /\ LET call == ManagerCall(scraper.run)
       IN  scraper' = [scraper EXCEPT !.outcome = call.outcome,
                                      !.playwright = call.playwright,
                                      !.browser = call.browser]
    /\ UNCHANGED <<notification, extraction, cycles_since_clear, connection_start_time, pc,
                   cfgVars, retry_count, wait_time, mailbox, handlerVars, exit_code,
                   serverVars, obsVars>>

ScrapeNext == ScrapeCall

ScrapeSpec == ScrapeInit /\ [][ScrapeNext]_vars

\* C28: when process_verification_link or process_confirmation_link has
\* returned, the Playwright driver and the browser started during the call are
\* closed, whatever happened in between (a result, no result, a timeout, a
\* navigation error, a failure to launch the browser or to open the page), as
\* long as the close and stop requests themselves succeed when issued.
C28_BrowserTornDown ==
    (/\ scraper # NoCall
     /\ scraper.outcome # "pending"
     /\ scraper.run.close = "ok"
     /\ scraper.run.stop = "ok") =>
        /\ ~scraper.playwright
        /\ ~scraper.browser

\* a step in which the browser call of a handler failed: the manager logged the
\* error it caught, or the call raised
ScrapingFailedStep ==
    /\ ProcessOneStep
    /\ \E b \in At("browser") : ops'[b + 1] \in {"log_error", "raise"}

\* C29: a failure inside the browser call (launch failure, selector timeout,
\* navigation error) does not leave the manager: process_verification_link
\* returns None and process_confirmation_link returns False, the handler logs
\* its "not found" / "failed" warning, the session stays connected, the poll
\* cycle goes on with the rest of the batch, and _retry_count is unchanged.
C29_ScrapingFailureContained ==
    [][ ScrapingFailedStep =>
            /\ ~Issued("raise")
            /\ ProcessVerificationLink("scraping_error") = None
            /\ ~ProcessConfirmationLink("scraping_error")
            /\ Issued("log_warning")
            /\ mailbox /\ mailbox'
            /\ pc' = "Processing"
            /\ fetched' = Tail(fetched)
            /\ retry_count' = retry_count
            /\ exit_code' = exit_code ]_vars

\* the browser call for the first message of a batch failed; the session is
\* live and the second message is next
C29_Witness ==
    /\ pc = "Processing"
    /\ mailbox
    /\ fetched # <<>>
    /\ \E i \in DOMAIN ops : ops[i] = "browser" /\ ops[i + 1] = "log_error"
    /\ \E i \in DOMAIN ops : ops[i] = "log_warning"

(* ============================== disconnect ============================= *)
\* C30: EmailHandler.disconnect never raises and leaves the handle cleared,
\* whether or not a session was live and whether or not the server logout
\* succeeded; every step that ends a live session leaves is_connected() false.
C30_LogoutBestEffort ==
    [][ /\ \A connected \in BOOLEAN, logoutOut \in LogoutOutcomes :
              /\ ~Disconnect(connected, logoutOut).raised
              /\ ~Disconnect(connected, logoutOut).mailbox
        /\ (mailbox /\ pc' \notin {"Polling", "Processing"}) => ~mailbox' ]_vars

\* a session that had completed a cycle was ended by the interrupt
C30_Witness ==
    /\ pc = "Stopped"
    /\ session_polled
    /\ ~mailbox
    /\ connection_start_time = NoTime

(* ======================= validation before connect ===================== *)
\* C31: connect() is attempted only after validate_config has returned without
\* raising; when it raises ConfigError the process leaves with status 1 from
\* the start, with no session and no connect attempted, and does nothing more.
C31_ValidatedBeforeConnect ==
    [][ /\ (pc = "Connecting" /\ pc' \in {"Polling", "Backoff", "ShutDown"}) =>
              ValidateConfig = "ok"
        /\ mailbox' => ValidateConfig = "ok"
        /\ (pc = "Start" /\ ValidateConfig # "ok") =>
              /\ pc' = "ConfigError"
              /\ exit_code' = 1
              /\ ~mailbox'
              /\ connection_start_time' = NoTime
        /\ pc = "ConfigError" => UNCHANGED vars ]_vars

\* a configuration with a non-positive number of attempts was rejected before
\* any connect
C31_Witness ==
    /\ pc = "ConfigError"
    /\ max_retry_attempts <= 0
    /\ check_interval > 0
    /\ exit_code = 1
    /\ ~mailbox
    /\ failed_streak = 0

(* ============================ the loop runs on ========================= *)
\* The run in which connect succeeds, no fetch fails, no request to move is
\* refused, nothing interrupts the process and no other client of the mailbox
\* removes a message.
\* the uids the server hands out in that run
LiveUIDs == 1..1

LiveInit ==
    InitWith({DefaultCheckInterval}, {1}, {DefaultMaxRetryAttempts}, {DeployedEmailConfig},
             {DeployedTelegramConfig}, Cardinality(LiveUIDs), MaxPolls)

\* one pass of the for loop of check_emails in which the server carries out the
\* move it is asked for
ProcessOneMoveOk ==
    /\ ProcessOne
    /\ ~Issued("raise_other")

\* the steps of the program: the loop is one sequential thread
LiveLoop ==
    \/ Start
    \/ ConnectOk
    \/ Fetch
    \/ ProcessOneMoveOk
    \/ CycleEnd

LiveNext ==
    \/ LiveLoop
    \/ Deliver
    \/ MarkSeen
    \/ Tick

\* the thread never blocks for good (its sleeps end, its requests return): when
\* it has a next step, it takes it
LiveSpec == LiveInit /\ [][LiveNext]_vars /\ WF_vars(LiveLoop)

\* the body holds an accountaccess URL and a double quote after it
QuotedAccessUrl(html) ==
    LET s == FirstMarker(html, AccountAccessUrl)
    IN  s # 0 /\ NextQuote(html, s) # 0

\* the handling of a message of the active folder has just raised
HandlingRaised == pc = "Processing" /\ ops = ProcessEmailRaises.ops

\* message u is in the active folder and a fetch of this run is still to show
\* it to the handler
ToBeHandled(u) ==
    /\ folder[u] = "inbox"
    /\ \/ pc = "Polling" /\ polls_left > 0
       \/ pc = "Processing" /\ \E i \in DOMAIN fetched : fetched[i].uid = u

C33_RaiseLeavesNoFingerprint ==
    [][ /\ RaisedOnMessage =>
              /\ processed_emails' = processed_emails
              /\ FP(Head(fetched)) \notin processed_emails'
              /\ ~Issued("add")
              /\ folder' = folder
        /\ (ProcessOneStep /\ FP(Head(fetched)) \notin processed_emails) =>
              ops' # <<"log_debug">> ]_vars

\* the handling of the message raised in a poll cycle after the first one: the
\* message is in the active folder, its fingerprint is not in the set, and
\* another poll is to come
C33_Witness ==
    /\ pc = "Processing"
    /\ ops = ProcessEmailRaises.ops
    /\ \E u \in UIDs : folder[u] = "inbox" /\ FP(mail[u]) \notin processed_emails
    /\ session_polled
    /\ polls_left > 0

(* ====================== the non-critical fetch failure ================= *)
\* a step in which the fetch of a cycle fails and check_emails returns: the cycle
\* ends at its start, or with messages of the batch still to be handled
NonCriticalFailStep ==
    /\ pc' = "Polling"
    /\ \/ pc = "Polling" /\ polls_left' = polls_left - 1
       \/ pc = "Processing" /\ fetched # <<>>

\* C34: a fetch failure that check_emails does not re-raise leaves the session
\* as it is: still connected, the same session (no logout, no connect), the
\* process running, _retry_count unchanged, the cycle counted as a completed one
\* and the next poll due on this session; a live session is ended only by a step
\* that leaves for a reconnection or stops the process.
C34_NonCriticalKeepsSession ==
    [][ /\ NonCriticalFailStep =>
              /\ mailbox /\ mailbox'
              /\ connection_start_time' = connection_start_time
              /\ retry_count' = retry_count
              /\ wait_time' = wait_time
              /\ exit_code' = exit_code
              /\ check_count' = (check_count + 1) % ClearEvery
              /\ processed_emails' = processed_emails
              /\ folder' = folder
        /\ (mailbox /\ ~mailbox') => pc' \in {"Connecting", "Stopped"} ]_vars

\* in a session that followed a failed connect, a cycle has ended with a message
\* of the active folder unhandled; the session is live and the counter is still 1
C34_Witness ==
    /\ pc = "Polling"
    /\ mailbox
    /\ session_polled
    /\ polls_left = 0
    /\ retry_count = 1
    /\ check_count = 1
    /\ \E u \in UIDs :
        /\ folder[u] = "inbox"
        /\ Branch(mail[u].body) = "accountaccess"
        /\ FP(mail[u]) \notin processed_emails

(* ================== the set of fingerprints and sessions =============== *)
\* C35: connect() and disconnect() leave _processed_emails as it is: no step
\* that starts or ends a session, and no step between two sessions, changes the
\* set, so a message whose fingerprint is in the set is skipped whatever session
\* fetches it; and run_email_loop starts every session with its cycle counter
\* at 0.
C35_ProcessedSetSurvivesReconnect ==
    [][ /\ (mailbox' # mailbox \/ ~mailbox) => processed_emails' = processed_emails
        /\ (~mailbox /\ mailbox') => check_count' = 0
        /\ (ProcessOneStep /\ FP(Head(fetched)) \in processed_emails) =>
              /\ ops' = <<"log_debug">>
              /\ folder' = folder
              /\ processed_emails' = processed_emails ]_vars

\* in the first cycle of a session a message is skipped as a duplicate: its
\* fingerprint was added in an earlier session
C35_Witness ==
    /\ pc = "Processing"
    /\ mailbox
    /\ ~session_polled
    /\ check_count = 0
    /\ ops = <<"log_debug">>
    /\ \E u \in UIDs : folder[u] = "inbox" /\ FP(mail[u]) \in processed_emails

FetchOutcomes == {"ok", "error", "critical_error"}

\* check_emails without its test of is_connected
CheckEmailsOnEmptyFolder_NoGuard(connected, fetchOut) ==
    IF fetchOut = "ok"
    THEN [ops |-> <<"log_debug", "fetch">>, raised |-> FALSE]
    ELSE IF fetchOut = "critical_error"
    THEN [ops |-> <<"log_debug", "fetch", "raise_EmailProcessingError">>, raised |-> TRUE]
    ELSE [ops |-> <<"log_debug", "fetch", "log_warning">>, raised |-> FALSE]

\* EmailHandler.check_emails when the fetch yields no message: the operations
\* it issues and whether EmailProcessingError leaves it
CheckEmailsOnEmptyFolder(connected, fetchOut) ==
    IF ~connected
    THEN [ops |-> <<"raise_EmailProcessingError">>, raised |-> TRUE]
    ELSE IF fetchOut = "ok"
    THEN [ops |-> <<"log_debug", "fetch">>, raised |-> FALSE]
    ELSE IF fetchOut = "critical_error"
    THEN [ops |-> <<"log_debug", "fetch", "raise_EmailProcessingError">>, raised |-> TRUE]
    ELSE [ops |-> <<"log_debug", "fetch", "log_warning">>, raised |-> FALSE]

\* the messages a caller holds
HandlerMessages ==
    { [uid |-> 1, date |-> h[1], subject |-> h[2], seen |-> sn, body |-> b] :
        h \in Headers, sn \in BOOLEAN, b \in Bodies }

HandlerInit ==
    InitWith({DefaultCheckInterval}, {1}, {DefaultMaxRetryAttempts}, {DeployedEmailConfig},
             {DeployedTelegramConfig}, 1, 0)

\* EmailHandler.connect: the handle is set when the login returns
HandlerConnect ==
    /\ pc = "Start"
    /\ \E loginOut \in {"ok", "error"} :
        IF loginOut = "ok"
        THEN /\ mailbox' = TRUE
             /\ ops' = <<"connect", "log_info", "login", "log_info">>
        ELSE /\ mailbox' = mailbox
             /\ ops' = <<"connect", "log_info", "login", "raise_EmailConnectionError">>
    /\ fetched' = <<>>
    /\ UNCHANGED <<callVars, cycles_since_clear, connection_start_time, pc, cfgVars,
                   retry_count, wait_time, processed_emails, check_count, current_time,
                   exit_code, serverVars, obsVars>>

\* EmailHandler.disconnect
HandlerDisconnect ==
    /\ pc = "Start"
    /\ \E logoutOut \in LogoutOutcomes :
        LET d == Disconnect(mailbox, logoutOut)
        IN  /\ mailbox' = d.mailbox
            /\ ops' = <<"disconnect">> \o d.ops
    /\ fetched' = <<>>
    /\ UNCHANGED <<callVars, cycles_since_clear, connection_start_time, pc, cfgVars,
                   retry_count, wait_time, processed_emails, check_count, current_time,
                   exit_code, serverVars, obsVars>>

\* EmailHandler.check_emails
HandlerCheckEmails ==
    /\ pc = "Start"
    /\ \E fetchOut \in FetchOutcomes :
        ops' = <<"check_emails">> \o CheckEmailsOnEmptyFolder(mailbox, fetchOut).ops
    /\ fetched' = <<>>
    /\ UNCHANGED <<callVars, cycles_since_clear, connection_start_time, pc, cfgVars,
                   retry_count, wait_time, mailbox, processed_emails, check_count,
                   current_time, exit_code, serverVars, obsVars>>

\* EmailHandler._move_email_to_gelesen for a message that is not in the folder
HandlerMove ==
    /\ pc = "Start"
    /\ \E msg \in HandlerMessages, moveOut \in ServerMoveOutcomes(FALSE) :
        /\ fetched' = <<msg>>
        /\ ops' = <<"_move_email_to_gelesen">> \o MoveEmailToGelesen(mailbox, moveOut).ops
    /\ UNCHANGED <<callVars, cycles_since_clear, connection_start_time, pc, cfgVars,
                   retry_count, wait_time, mailbox, processed_emails, check_count,
                   current_time, exit_code, serverVars, obsVars>>

HandlerNext ==
    \/ HandlerConnect
    \/ HandlerDisconnect
    \/ HandlerCheckEmails
    \/ HandlerMove

HandlerSpec == HandlerInit /\ [][HandlerNext]_vars

\* the method m was called in this step
Called(m) == ops' # <<>> /\ ops'[1] = m

\* C37: a fetch or a move request is issued only by a call made while the handle
\* holds a session; check_emails called with no session raises
\* EmailProcessingError and issues nothing else; _move_email_to_gelesen called
\* with no session logs an error, writes the status FAILED, issues no move
\* request and raises nothing.
C37_NoRequestWithoutSession ==
    [][ /\ (Issued("fetch") \/ Issued("move")) => mailbox
        /\ (Called("check_emails") /\ ~mailbox) =>
              ops' = <<"check_emails", "raise_EmailProcessingError">>
        /\ (Called("_move_email_to_gelesen") /\ ~mailbox) =>
              ops' = <<"_move_email_to_gelesen", "log_error", "status_FAILED">> ]_vars

\* a message was handed to _move_email_to_gelesen while no session was held
C37_Witness ==
    /\ ~mailbox
    /\ fetched # <<>>
    /\ ops = <<"_move_email_to_gelesen", "log_error", "status_FAILED">>

(* ======================== one session at a time ======================== *)
\* the number of logout requests among the operations o
Logouts(o) == Cardinality({i \in DOMAIN o : o[i] = "logout"})

\* C38: connect() is called only when the handle holds no session, and a session
\* begins only by a connect that succeeds; disconnect() sends one logout when the
\* handle holds a session and none when it holds none, and leaves the handle
\* empty, so a second disconnect() after it sends nothing; every step that
\* leaves the session loop, and every end of the process, leaves no session
\* behind.  Hence each session is logged out once, no two sessions are live
\* together and there are never more logouts than successful connects.
C38_OneSessionOneLogout ==
    [][ /\ pc = "Connecting" => ~mailbox
        /\ (~mailbox /\ mailbox') => pc = "Connecting" /\ pc' = "Polling"
        /\ (mailbox /\ mailbox') =>
              connection_start_time' = connection_start_time
        /\ (mailbox /\ pc' \notin {"Polling", "Processing"}) => ~mailbox'
        /\ pc' \in {"Stopped", "ShutDown", "ConfigError"} => ~mailbox'
        /\ \A connected \in BOOLEAN, first \in LogoutOutcomes, second \in LogoutOutcomes :
              LET d == Disconnect(connected, first)
              IN  /\ Logouts(d.ops) = IF connected THEN 1 ELSE 0
                  /\ Disconnect(d.mailbox, second).ops = <<>> ]_vars

\* a session is live that was established after an earlier one had been ended
\* by a poll failure
C38_Witness ==
    /\ pc = "Polling"
    /\ mailbox
    /\ ~session_polled
    /\ failed_streak = 1
    /\ retry_count = 0
    /\ polls_left < MaxPolls

(* ========================== the move never raises ====================== *)
\* a step in which _process_email handles the next message and requests a move
MoveRequestedStep ==
    /\ pc = "Processing"
    /\ fetched # <<>>
    /\ fetched' # fetched
    /\ Issued("move")

\* C39: nothing is raised out of _move_email_to_gelesen: for every state of the
\* handle and every answer of the server it ends by writing the status SUCCESS
\* or FAILED; when the request fails with another error than already-moved or
\* not-found, the error is logged, the status is FAILED, the message stays in
\* the folder, the branch runs to its end (the fingerprint is added), the cycle
\* goes on with the next message and the session and the retry counter are
\* untouched.
C39_MoveNeverRaises ==
    [][ /\ \A connected \in BOOLEAN, moveOut \in MoveOutcomes :
              LET r == MoveEmailToGelesen(connected, moveOut)
              IN  /\ r.status \in {"SUCCESS", "FAILED"}
                  /\ r.ops[Len(r.ops)] = "status_" \o r.status
                  /\ \A i \in DOMAIN r.ops : r.ops[i] # "raise"
        /\ MoveRequestedStep =>
              /\ ~Issued("raise")
              /\ MoveReturned # {}
              /\ ops'[Len(ops')] = "add"
              /\ FP(Head(fetched)) \in processed_emails'
              /\ fetched' = Tail(fetched)
              /\ pc' = "Processing"
              /\ mailbox'
              /\ retry_count' = retry_count
              /\ exit_code' = exit_code
              /\ InMoveOps("raise_other") =>
                    /\ InMoveOps("log_error")
                    /\ InMoveOps("status_FAILED")
                    /\ folder' = folder ]_vars

\* the server refused the move of a message of the travel/verify branch with
\* another error: the status is FAILED, the fingerprint was added and the cycle
\* goes on
C39_Witness ==
    /\ pc = "Processing"
    /\ mailbox
    /\ \E i \in DOMAIN ops : ops[i] = "browser"
    /\ \E i \in DOMAIN ops : ops[i] = "raise_other"
    /\ ops[Len(ops)] = "add"
    /\ ops[Len(ops) - 1] = "status_FAILED"
    /\ \E u \in UIDs :
        /\ folder[u] = "inbox"
        /\ Branch(mail[u].body) = "travel/verify"
        /\ FP(mail[u]) \in processed_emails

====
